---- MODULE Spec2Model ----
(***************************************************************************)
(* Model of the authorization engine of athenz-authorizer                  *)
(* (src/authorizerd.go): the cache-fronted authorize pipeline, the         *)
(* request dispatcher (Verify / Authorize) and the principal cache with    *)
(* its byte accounting.                                                     *)
(*                                                                         *)
(* Strings are TLA+ strings, joined with \o exactly as strings.Builder     *)
(* joins them.  An error is the sequence of its messages, outermost wrap   *)
(* first (errors.Wrap(err, msg) puts msg in front); nil is the empty       *)
(* sequence.  The credential validators, the translator and the policy     *)
(* store are collaborators outside this file: each call draws their        *)
(* answer from a small set.                                                *)
(***************************************************************************)
EXTENDS Integers, Sequences, FiniteSets, TLC

VARIABLES
    cfg,               \* the options fixed by New: see Configs
    cache,             \* a.cache: DecisionKey -> [val, expire]
    cacheMemoryUsage,  \* a.cacheMemoryUsage
    now,               \* the clock the cache's TTL is measured on
    origin,            \* history: for each cached key, the call that set it
    last,              \* history: the last API call, its result and its trace
    calls,             \* number of API calls made so far
    inflight,          \* authorize calls between their cache miss and the
                       \* end of their insert, when calls run concurrently
    built,             \* what New returned: the error, a.authorizers
    ctx,               \* the context handed to Init and Start
    warm,              \* Init: where its two groups are, what it returned
    sup,               \* Start: the supervisor goroutine and the sweeper
    ech,               \* the error channel Start returns, and its reader
    budget             \* how many undrained refresh errors the providers
                       \* are let to pile up

lifecycle == <<built, ctx, warm, sup, ech, budget>>

vars == <<cfg, cache, cacheMemoryUsage, now, origin, last, calls, inflight,
          built, ctx, warm, sup, ech, budget>>

----------------------------------------------------------------------------
(* Bounds of the model *)

(* The peer certificates of a role-certificate call: a role in the CN    *)
(* that a URI repeats beside a second role of the domain; a CN whose       *)
(* domain and role concatenate to the same string as the first; no role    *)
(* at all (no delimiter in the CN, a URI of another scheme, a role URI     *)
(* without a role part); a role URI with a second separator.               *)
RoleCertA ==
    [present |-> TRUE, issuerCN |-> "ca", subjectCN |-> "a:role.bc", id |-> 2,
     uris |-> <<"athenz://role/a/bc", "athenz://role/a/d">>]

RoleCertAB ==
    [present |-> TRUE, issuerCN |-> "ca", subjectCN |-> "ab:role.c", id |-> 3,
     uris |-> <<>>]

RoleCertNone ==
    [present |-> TRUE, issuerCN |-> "ca", subjectCN |-> "x", id |-> 4,
     uris |-> <<"spiffe://a/bc", "athenz://role/a">>]

RoleCertE ==
    [present |-> TRUE, issuerCN |-> "ca", subjectCN |-> "x", id |-> 5,
     uris |-> <<"athenz://role/e/f/g">>]

RoleCerts == {RoleCertA, RoleCertAB, RoleCertNone, RoleCertE}

MaxTime == 2
MaxCalls == 2
MaxRequests == 1
MaxUndrained == 2

(* ech = make(chan error, 200) *)
ErrChanCap == 200

(* a.cacheExp, in ticks of the model's clock *)
CacheExp == 1

(* Sizes principalCacheMemoryUsage adds up (64-bit build) *)
InterfaceSize == 16
StringHeaderSize == 16
SliceHeaderSize == 24
int64Size == 8

----------------------------------------------------------------------------
(* Errors *)

Nil == <<>>

Wrap(err, msg) == <<msg>> \o err

ErrInvalidParameters == <<"Access denied due to invalid/empty action/resource values">>

ErrInvalidCredentials == <<"Access denied due to invalid credentials">>

ErrNotImplemented == <<"AuthorizeRoleCert has not yet been implemented">>

----------------------------------------------------------------------------
(* Inputs *)

cacheKeyDelimiter == ":"

NilCert == [present |-> FALSE, issuerCN |-> "", subjectCN |-> "", id |-> 0]

Cert1 == [present |-> TRUE, issuerCN |-> "a", subjectCN |-> "a", id |-> 1]

Certs == {NilCert, Cert1}

(* A second certificate of the same issuer and subject *)
Cert2 == [present |-> TRUE, issuerCN |-> "a", subjectCN |-> "a", id |-> 6]

Toks == {"T"}

Acts == {"", "a"}

Ress == {"", "r", "a:a:r"}

Queries == {"", "q"}

roleToken == "roleToken"

accessToken == "accessToken"

Modes == {roleToken, accessToken}

(* *http.Request as the dispatcher reads it: r.TLS (nil, or its            *)
(* PeerCertificates), the bearer token of the Authorization header (absent *)
(* when none can be extracted), the role header (Header.Get gives "" when  *)
(* it is absent) and r.URL.RawQuery.                                       *)
Requests ==
    {r \in [tlsNil : BOOLEAN,
            peers : {<<>>, <<Cert1>>, <<Cert2, Cert1>>, <<RoleCertA>>},
            hasBearer : BOOLEAN,
            bearer : {""} \cup Toks,
            roleHeader : {""} \cup Toks,
            rawQuery : Queries] :
        /\ r.tlsNil => r.peers = <<>>
        /\ r.hasBearer <=> r.bearer # ""}

(* What a credential validator answers: an error, or the token's claims.   *)
(* role.Token{Principal, Domain, Roles, TimeStamp, ExpiryTime} and         *)
(* access.OAuth2AccessTokenClaim{Subject, Audience, Scope, IssuedAt,       *)
(* ExpiresAt, ClientID} are read into the same fields.  No validator       *)
(* accepts the empty token.                                                *)
ValidatorOutcomes(m, tok) ==
    {[ok |-> FALSE, cause |-> <<"invalid token">>, name |-> "", domain |-> "",
      roles |-> <<>>, issueTime |-> 0, expiryTime |-> 0, clientID |-> ""]}
    \cup
    (IF tok = "" THEN {}
     ELSE {[ok |-> TRUE, cause |-> Nil, name |-> "u", domain |-> "d",
            roles |-> <<"r1", "r2">>, issueTime |-> 0, expiryTime |-> 9,
            clientID |-> IF m = accessToken THEN "c" ELSE ""]})

(* What translator.Translate answers: an error, or the pair a mapping rule *)
(* gives.                                                                  *)
TranslatorOutcomes ==
    {[ok |-> FALSE, cause |-> <<"translate failed">>, act |-> "", res |-> ""],
     [ok |-> TRUE, cause |-> Nil, act |-> "ta", res |-> "tr"]}

(* What policyd.CheckPolicyRoles answers: an error, or the roles the       *)
(* policy allows among those asked about.                                  *)
PolicyOutcomes ==
    {[ok |-> FALSE, cause |-> <<"deny">>, authorizedRoles |-> <<>>],
     [ok |-> TRUE, cause |-> Nil, authorizedRoles |-> <<"r1">>]}

Unused(S) == CHOOSE x \in S : ~x.ok

(* The answers one authorize call may get.  The answer of a collaborator   *)
(* that the configuration or an earlier failure keeps from being asked is  *)
(* not drawn.                                                              *)
Envs(m, tok, disablePolicyd, translator) ==
    {e \in [val : ValidatorOutcomes(m, tok),
            tr : TranslatorOutcomes,
            pol : PolicyOutcomes] :
        /\ (~translator \/ disablePolicyd \/ ~e.val.ok)
              => e.tr = Unused(TranslatorOutcomes)
        /\ (disablePolicyd \/ ~e.val.ok \/ (translator /\ ~e.tr.ok))
              => e.pol = Unused(PolicyOutcomes)}

----------------------------------------------------------------------------
(* Principals *)

NoPrincipal ==
    [kind |-> "nil", name |-> "", domain |-> "", roles |-> <<>>,
     issueTime |-> 0, expiryTime |-> 0, authorizedRoles |-> <<>>, clientID |-> ""]

(* &principal{...} of the role-token case, &oAuthAccessToken{...} of the   *)
(* access-token case: authorizedRoles is left at its zero value.           *)
NewPrincipal(m, v) ==
    [kind |-> IF m = roleToken THEN "principal" ELSE "oAuthAccessToken",
     name |-> v.name, domain |-> v.domain, roles |-> v.roles,
     issueTime |-> v.issueTime, expiryTime |-> v.expiryTime,
     authorizedRoles |-> <<>>,
     clientID |-> IF m = roleToken THEN "" ELSE v.clientID]

RECURSIVE SumLen(_)
SumLen(ss) ==
    IF ss = <<>> THEN 0
    ELSE Len(Head(ss)) + StringHeaderSize + SumLen(Tail(ss))

principalCacheMemoryUsage(key, p) ==
    LET structSize == InterfaceSize
        nameSize == Len(p.name) + StringHeaderSize
        domainSize == Len(p.domain) + StringHeaderSize
        rolesSize == SliceHeaderSize + SumLen(p.roles)
        authorizedRolesSize == SliceHeaderSize + SumLen(p.authorizedRoles)
        timesSize == int64Size * 2
    IN  structSize + nameSize + domainSize + rolesSize + authorizedRolesSize
        + timesSize + Len(key)

----------------------------------------------------------------------------
(* The principal cache (gache): Get finds an entry only while it is valid, *)
(* SetWithExpire inserts or overwrites, the sweep deletes expired entries  *)
(* and hands each to the ExpiredHook.                                      *)

IsValid(e, t) == t <= e.expire

CacheGet(c, key, t) == key \in DOMAIN c /\ IsValid(c[key], t)

SetWithExpire(c, key, p, t, ttl) ==
    [k \in DOMAIN c \cup {key} |->
        IF k = key THEN [val |-> p, expire |-> t + ttl] ELSE c[k]]

ExpiredKeys(c, t) == {k \in DOMAIN c : ~IsValid(c[k], t)}

----------------------------------------------------------------------------
(* Trace events: what a call did, in order.  Every event carries the       *)
(* arguments of the authorize call it belongs to; `key` is the DecisionKey *)
(* of a cache event, (domain, roles, pact, pres) the arguments handed to   *)
(* the translator or the policy store, `authorized` the roles the policy   *)
(* store answered, `who` the dispatcher's authorizer,                      *)
(* `ok` whether the collaborator answered without error, (`p`, `err`) what *)
(* an authorizer returned.                                                 *)

EvBase ==
    [ev |-> "", who |-> "", m |-> "", tok |-> "", act |-> "", res |-> "",
     query |-> "", cert |-> NilCert, key |-> "", domain |-> "", roles |-> <<>>,
     pact |-> "", pres |-> "", ok |-> TRUE, err |-> Nil, p |-> NoPrincipal,
     authorized |-> <<>>, policies |-> <<>>]

EvCall(ev, m, tok, act, res, query, cert) ==
    [EvBase EXCEPT !.ev = ev, !.m = m, !.tok = tok, !.act = act, !.res = res,
                   !.query = query, !.cert = cert]

Result(p, err, c, u, trace) ==
    [p |-> p, err |-> err, cache |-> c, usage |-> u, trace |-> trace]

----------------------------------------------------------------------------
(* authority.authorize *)

(* Mutant: the query is appended whether or not a translator is set. *)
DecisionKeyAlwaysQuery(tok, act, res, query, cert) ==
    LET k1 == tok
        k2 == IF cert.present
              THEN k1 \o cacheKeyDelimiter \o cert.issuerCN
                      \o cacheKeyDelimiter \o cert.subjectCN
              ELSE k1
        k3 == IF ~cfg.disablePolicyd
              THEN k2 \o cacheKeyDelimiter \o act \o cacheKeyDelimiter \o res
              ELSE k2
    IN  IF ~cfg.disablePolicyd /\ query # ""
        THEN k3 \o cacheKeyDelimiter \o query
        ELSE k3

(* var key strings.Builder ... key.String() *)
DecisionKey(tok, act, res, query, cert) ==
    LET k1 == tok
        k2 == IF cert.present
              THEN k1 \o cacheKeyDelimiter \o cert.issuerCN
                      \o cacheKeyDelimiter \o cert.subjectCN
              ELSE k1
        k3 == IF ~cfg.disablePolicyd
              THEN k2 \o cacheKeyDelimiter \o act \o cacheKeyDelimiter \o res
              ELSE k2
        k4 == IF ~cfg.disablePolicyd /\ query # "" /\ cfg.translator
              THEN k3 \o cacheKeyDelimiter \o query
              ELSE k3
    IN  k4

(* Mutant: only the action is checked. *)
InvalidParametersActOnly(act, res) ==
    ~cfg.disablePolicyd /\ act = ""

(* if !a.disablePolicyd { if act == "" || res == "" { return ... } } *)
InvalidParameters(act, res) ==
    ~cfg.disablePolicyd /\ (act = "" \/ res = "")

(* Mutant: both modes wrap with the role-token message. *)
ValidatorErrorSameMessage(m, cause) ==
    Wrap(cause, "error authorize role token")

(* errors.Wrap(err, "error authorize role token") and                      *)
(* errors.Wrap(err, "error authorize access token")                        *)
ValidatorError(m, cause) ==
    IF m = roleToken
    THEN Wrap(cause, "error authorize role token")
    ELSE Wrap(cause, "error authorize access token")

(* return nil, err *)
TranslatorError(cause) == cause

(* errors.Wrap(err, "token unauthorized") *)
PolicyError(cause) == Wrap(cause, "token unauthorized")

(* a.cache.SetWithExpire(key, p, a.cacheExp); a.cacheMemoryUsage.Add(...)  *)
(* Mutant: the entry is kept for twice cacheExp. *)
CacheInsertTwiceAsLong(c, u, t, key, p, ev, trace) ==
    Result(p, Nil,
           SetWithExpire(c, key, p, t, CacheExp + CacheExp),
           u + principalCacheMemoryUsage(key, p),
           Append(trace, [ev EXCEPT !.ev = "set", !.key = key]))

CacheInsert(c, u, t, key, p, ev, trace) ==
    Result(p, Nil,
           SetWithExpire(c, key, p, t, CacheExp),
           u + principalCacheMemoryUsage(key, p),
           Append(trace, [ev EXCEPT !.ev = "set", !.key = key]))

(* Mutant: every role of the credential is taken as authorized. *)
CheckPolicyAllRoles(c, u, t, key, p, act, res, query, env, ev, trace) ==
    LET trT == IF cfg.translator
               THEN Append(trace, [ev EXCEPT !.ev = "translate",
                                             !.ok = env.tr.ok,
                                             !.domain = p.domain,
                                             !.pact = act, !.pres = res])
               ELSE trace
        trP == Append(trT, [ev EXCEPT !.ev = "policy", !.ok = env.pol.ok,
                                      !.domain = p.domain, !.roles = p.roles,
                                      !.authorized = env.pol.authorizedRoles])
    IN  IF cfg.translator /\ ~env.tr.ok
        THEN Result(NoPrincipal, TranslatorError(env.tr.cause), c, u, trT)
        ELSE IF ~env.pol.ok
             THEN Result(NoPrincipal, PolicyError(env.pol.cause), c, u, trP)
             ELSE CacheInsert(c, u, t, key,
                              [p EXCEPT !.authorizedRoles = p.roles], ev, trP)

(* Mutant: the prefix is prepended before the translation. *)
CheckPolicyPrefixFirst(c, u, t, key, p, act, res, query, env, ev, trace) ==
    LET res0 == cfg.resourcePrefix \o res
        trT == IF cfg.translator
               THEN Append(trace, [ev EXCEPT !.ev = "translate",
                                             !.ok = env.tr.ok,
                                             !.domain = p.domain,
                                             !.pact = act, !.pres = res0])
               ELSE trace
    IN  IF cfg.translator /\ ~env.tr.ok
        THEN Result(NoPrincipal, TranslatorError(env.tr.cause), c, u, trT)
        ELSE LET act2 == IF cfg.translator THEN env.tr.act ELSE act
                 res2 == IF cfg.translator THEN env.tr.res ELSE res0
                 trP == Append(trT, [ev EXCEPT !.ev = "policy",
                                               !.ok = env.pol.ok,
                                               !.domain = p.domain,
                                               !.roles = p.roles,
                                               !.pact = act2, !.pres = res2,
                                               !.authorized =
                                                   env.pol.authorizedRoles])
             IN  IF ~env.pol.ok
                 THEN Result(NoPrincipal, PolicyError(env.pol.cause), c, u, trP)
                 ELSE CacheInsert(c, u, t, key,
                                  [p EXCEPT !.authorizedRoles =
                                                env.pol.authorizedRoles],
                                  ev, trP)

(* The policy part of a miss: translate, prefix, CheckPolicyRoles, and the *)
(* authorizedRoles of the principal.                                       *)
CheckPolicy(c, u, t, key, p, act, res, query, env, ev, trace) ==
    LET trT == IF cfg.translator
               THEN Append(trace, [ev EXCEPT !.ev = "translate",
                                             !.ok = env.tr.ok,
                                             !.domain = p.domain,
                                             !.pact = act, !.pres = res])
               ELSE trace
    IN  IF cfg.translator /\ ~env.tr.ok
        THEN Result(NoPrincipal, TranslatorError(env.tr.cause), c, u, trT)
        ELSE LET act2 == IF cfg.translator THEN env.tr.act ELSE act
                 res1 == IF cfg.translator THEN env.tr.res ELSE res
                 res2 == cfg.resourcePrefix \o res1
                 trP == Append(trT, [ev EXCEPT !.ev = "policy",
                                               !.ok = env.pol.ok,
                                               !.domain = p.domain,
                                               !.roles = p.roles,
                                               !.pact = act2, !.pres = res2,
                                               !.authorized =
                                                   env.pol.authorizedRoles])
             IN  IF ~env.pol.ok
                 THEN Result(NoPrincipal, PolicyError(env.pol.cause), c, u, trP)
                 ELSE CacheInsert(c, u, t, key,
                                  [p EXCEPT !.authorizedRoles =
                                                env.pol.authorizedRoles],
                                  ev, trP)

(* Mutant: the policy part runs whether or not policy evaluation is        *)
(* disabled.                                                               *)
MissAlwaysPolicy(c, u, t, key, m, tok, act, res, query, cert, env, ev, trace) ==
    LET trV == Append(trace, [ev EXCEPT !.ev = "validate", !.ok = env.val.ok])
    IN  IF ~env.val.ok
        THEN Result(NoPrincipal, ValidatorError(m, env.val.cause), c, u, trV)
        ELSE CheckPolicy(c, u, t, key, NewPrincipal(m, env.val),
                         act, res, query, env, ev, trV)

(* Mutant: the validated principal is cached before the policy part, and   *)
(* stays cached when the policy part fails.                                *)
MissCachesFirst(c, u, t, key, m, tok, act, res, query, cert, env, ev, trace) ==
    LET trV == Append(trace, [ev EXCEPT !.ev = "validate", !.ok = env.val.ok])
        p0 == NewPrincipal(m, env.val)
        early == CacheInsert(c, u, t, key, p0, ev, trV)
        checked == CheckPolicy(c, u, t, key, p0, act, res, query, env, ev, trV)
    IN  IF ~env.val.ok
        THEN Result(NoPrincipal, ValidatorError(m, env.val.cause), c, u, trV)
        ELSE IF ~cfg.disablePolicyd
             THEN IF checked.err = Nil THEN checked
                  ELSE Result(NoPrincipal, checked.err, early.cache,
                              early.usage,
                              early.trace \o SubSeq(checked.trace, Len(trV) + 1,
                                                    Len(checked.trace)))
             ELSE early

(* The cache miss: the validator of the mode, then the policy part unless  *)
(* policy evaluation is disabled, then the insert.                         *)
Miss(c, u, t, key, m, tok, act, res, query, cert, env, ev, trace) ==
    LET trV == Append(trace, [ev EXCEPT !.ev = "validate", !.ok = env.val.ok])
    IN  IF ~env.val.ok
        THEN Result(NoPrincipal, ValidatorError(m, env.val.cause), c, u, trV)
        ELSE IF ~cfg.disablePolicyd
             THEN CheckPolicy(c, u, t, key, NewPrincipal(m, env.val),
                              act, res, query, env, ev, trV)
             ELSE CacheInsert(c, u, t, key, NewPrincipal(m, env.val), ev, trV)

(* Mutant: a hit renews the entry's TTL. *)
CacheHitRenews(c, u, t, key, trace) ==
    Result(c[key].val, Nil, SetWithExpire(c, key, c[key].val, t, CacheExp),
           u, trace)

(* cached, ok := a.cache.Get(key); if ok { return cached.(Principal), nil } *)
CacheHit(c, u, t, key, trace) == Result(c[key].val, Nil, c, u, trace)

authorize(c, u, t, m, tok, act, res, query, cert, env) ==
    LET ev == EvCall("authorize", m, tok, act, res, query, cert)
        key == DecisionKey(tok, act, res, query, cert)
        trG == <<ev, [ev EXCEPT !.ev = "get", !.key = key]>>
    IN  IF InvalidParameters(act, res)
        THEN Result(NoPrincipal,
                    Wrap(ErrInvalidParameters, "empty action / resource"),
                    c, u, <<ev>>)
        ELSE IF CacheGet(c, key, t)
             THEN CacheHit(c, u, t, key, trG)
             ELSE Miss(c, u, t, key, m, tok, act, res, query, cert, env, ev, trG)

----------------------------------------------------------------------------
(* The token operations *)

(* Mutant: the Verify form passes the raw token as the query too. *)
VerifyRoleTokenOwnQuery(c, u, t, tok, act, res, env) ==
    [authorize(c, u, t, roleToken, tok, act, res, tok, NilCert, env)
        EXCEPT !.p = NoPrincipal]

(* _, err := a.authorize(ctx, roleToken, tok, act, res, "", nil) *)
VerifyRoleToken(c, u, t, tok, act, res, env) ==
    [authorize(c, u, t, roleToken, tok, act, res, "", NilCert, env)
        EXCEPT !.p = NoPrincipal]

AuthorizeRoleToken(c, u, t, tok, act, res, env) ==
    authorize(c, u, t, roleToken, tok, act, res, "", NilCert, env)

(* _, err := a.authorize(ctx, accessToken, tok, act, res, "", cert) *)
VerifyAccessToken(c, u, t, tok, act, res, cert, env) ==
    [authorize(c, u, t, accessToken, tok, act, res, "", cert, env)
        EXCEPT !.p = NoPrincipal]

AuthorizeAccessToken(c, u, t, tok, act, res, cert, env) ==
    authorize(c, u, t, accessToken, tok, act, res, "", cert, env)

----------------------------------------------------------------------------
(* The request dispatcher *)

(* Mutant: a non-empty list of peer certificates is accepted. *)
AuthorizeRoleCertAccepts(c, u, peerCerts, act, res) ==
    Result(NoPrincipal,
           IF Len(peerCerts) = 0 THEN ErrNotImplemented ELSE Nil, c, u, <<>>)

(* authority.AuthorizeRoleCert *)
AuthorizeRoleCert(c, u, peerCerts, act, res) ==
    Result(NoPrincipal, ErrNotImplemented, c, u, <<>>)

(* Mutant: the role-token authorizer is appended before the access-token  *)
(* one.                                                                    *)
initAuthorizersRoleTokenFirst ==
    (IF cfg.enableRoleCert THEN <<"rolecert">> ELSE <<>>)
    \o (IF cfg.enableRoleToken THEN <<"roletoken">> ELSE <<>>)
    \o (IF cfg.enableAccessToken THEN <<"accesstoken">> ELSE <<>>)

(* a.authorizers as initAuthorizers builds it *)
initAuthorizers ==
    (IF cfg.enableRoleCert THEN <<"rolecert">> ELSE <<>>)
    \o (IF cfg.enableAccessToken THEN <<"accesstoken">> ELSE <<>>)
    \o (IF cfg.enableRoleToken THEN <<"roletoken">> ELSE <<>>)

(* Mutant: a request with a peer certificate is let through. *)
rcVerifierAcceptsPeers(c, u, t, r, act, res, envs) ==
    IF ~r.tlsNil /\ Len(r.peers) # 0
    THEN Result(NoPrincipal, Nil, c, u, <<>>)
    ELSE AuthorizeRoleCert(c, u, <<>>, act, res)

rcVerifier(c, u, t, r, act, res, envs) ==
    IF ~r.tlsNil
    THEN AuthorizeRoleCert(c, u, r.peers, act, res)
    ELSE AuthorizeRoleCert(c, u, <<>>, act, res)

(* Mutant: the last peer certificate is the binding certificate. *)
atVerifierLastCert(c, u, t, r, act, res, envs) ==
    IF ~r.hasBearer
    THEN Result(NoPrincipal, <<"no token present in request">>, c, u, <<>>)
    ELSE IF ~r.tlsNil /\ Len(r.peers) # 0
         THEN authorize(c, u, t, accessToken, r.bearer, act, res, r.rawQuery,
                        r.peers[Len(r.peers)], envs.at)
         ELSE authorize(c, u, t, accessToken, r.bearer, act, res, r.rawQuery,
                        NilCert, envs.at)

atVerifier(c, u, t, r, act, res, envs) ==
    IF ~r.hasBearer
    THEN Result(NoPrincipal, <<"no token present in request">>, c, u, <<>>)
    ELSE IF ~r.tlsNil /\ Len(r.peers) # 0
         THEN authorize(c, u, t, accessToken, r.bearer, act, res, r.rawQuery,
                        r.peers[1], envs.at)
         ELSE authorize(c, u, t, accessToken, r.bearer, act, res, r.rawQuery,
                        NilCert, envs.at)

rtVerifier(c, u, t, r, act, res, envs) ==
    authorize(c, u, t, roleToken, r.roleHeader, act, res, r.rawQuery,
              NilCert, envs.rt)

verifier(who, c, u, t, r, act, res, envs) ==
    CASE who = "rolecert" -> rcVerifier(c, u, t, r, act, res, envs)
      [] who = "accesstoken" -> atVerifier(c, u, t, r, act, res, envs)
      [] who = "roletoken" -> rtVerifier(c, u, t, r, act, res, envs)

Invoked(who, one) ==
    <<[EvBase EXCEPT !.ev = "authorizer", !.who = who]>>
    \o one.trace
    \o <<[EvBase EXCEPT !.ev = "return", !.who = who, !.err = one.err,
                         !.p = one.p]>>

(* Mutant: the loop gives up after the first authorizer. *)
VerifyFirstOnly(list, i, c, u, t, r, act, res, envs) ==
    LET one == verifier(list[1], c, u, t, r, act, res, envs)
    IN  Result(NoPrincipal,
               IF one.err = Nil THEN Nil ELSE ErrInvalidCredentials,
               one.cache, one.usage, Invoked(list[1], one))

(* authority.Verify: the loop from the i-th authorizer on *)
RECURSIVE Verify(_, _, _, _, _, _, _, _, _)
Verify(list, i, c, u, t, r, act, res, envs) ==
    IF i > Len(list)
    THEN Result(NoPrincipal, ErrInvalidCredentials, c, u, <<>>)
    ELSE LET one == verifier(list[i], c, u, t, r, act, res, envs)
         IN  IF one.err = Nil
             THEN Result(NoPrincipal, Nil, one.cache, one.usage,
                         Invoked(list[i], one))
             ELSE LET rest == Verify(list, i + 1, one.cache, one.usage, t,
                                     r, act, res, envs)
                  IN  [rest EXCEPT !.trace = Invoked(list[i], one) \o @]

(* authority.Authorize: the loop from the i-th authorizer on *)
RECURSIVE Authorize(_, _, _, _, _, _, _, _, _)
Authorize(list, i, c, u, t, r, act, res, envs) ==
    IF i > Len(list)
    THEN Result(NoPrincipal, ErrInvalidCredentials, c, u, <<>>)
    ELSE LET one == verifier(list[i], c, u, t, r, act, res, envs)
         IN  IF one.err = Nil
             THEN Result(one.p, Nil, one.cache, one.usage,
                         Invoked(list[i], one))
             ELSE LET rest == Authorize(list, i + 1, one.cache, one.usage, t,
                                        r, act, res, envs)
                  IN  [rest EXCEPT !.trace = Invoked(list[i], one) \o @]

----------------------------------------------------------------------------
(* Role certificates: strings.SplitN, strings.HasPrefix and                *)
(* strings.TrimPrefix on the Subject CN and the URI SANs, and the map      *)
(* VerifyRoleCert builds from them.                                        *)

Range(seq) == {seq[i] : i \in 1..Len(seq)}

roleInCNDelimiter == ":role."

(* a.roleCertURIPrefix, as the tests of VerifyRoleCert set it *)
roleCertURIPrefix == "athenz://role/"

uriSeparator == "/"

(* strings.Index: the position of the first occurrence of sep in s at or   *)
(* after i, 0 when there is none                                           *)
RECURSIVE IndexFrom(_, _, _)
IndexFrom(s, sep, i) ==
    IF i + Len(sep) - 1 > Len(s) THEN 0
    ELSE IF SubSeq(s, i, i + Len(sep) - 1) = sep THEN i
         ELSE IndexFrom(s, sep, i + 1)

(* strings.SplitN(s, sep, 2) *)
SplitN2(s, sep) ==
    LET i == IndexFrom(s, sep, 1)
    IN  IF i = 0 THEN <<s>>
        ELSE <<SubSeq(s, 1, i - 1), SubSeq(s, i + Len(sep), Len(s))>>

HasPrefix(s, prefix) ==
    Len(s) >= Len(prefix) /\ SubSeq(s, 1, Len(prefix)) = prefix

TrimPrefix(s, prefix) ==
    IF HasPrefix(s, prefix) THEN SubSeq(s, Len(prefix) + 1, Len(s)) ELSE s

(* drcheck and domainRoles before the first certificate *)
NoRoles == [drcheck |-> {}, domainRoles |-> <<>>, domains |-> <<>>]

(* Mutant: the duplicated role check is left out. *)
addDomainRolesNoCheck(st, dr) ==
    IF Len(dr) # 2 THEN st
    ELSE LET domain == dr[1]
             roleName == dr[2]
             at == {i \in 1..Len(st.domains) : st.domains[i] = domain}
         IN  IF at = {}
             THEN [st EXCEPT !.domains = Append(@, domain),
                             !.domainRoles = Append(@, <<roleName>>)]
             ELSE [st EXCEPT !.domainRoles[CHOOSE i \in at : TRUE] =
                                 Append(@, roleName)]

(* addDomainRoles: domainRoles[domain] gets roleName unless drcheck holds  *)
(* domain+roleName.  The map is kept as the list of its domains and the    *)
(* list of their role lists.                                               *)
addDomainRoles(st, dr) ==
    IF Len(dr) # 2 THEN st
    ELSE LET domain == dr[1]
             roleName == dr[2]
             at == {i \in 1..Len(st.domains) : st.domains[i] = domain}
         IN  IF (domain \o roleName) \in st.drcheck THEN st
             ELSE IF at = {}
                  THEN [drcheck |-> st.drcheck \cup {domain \o roleName},
                        domains |-> Append(st.domains, domain),
                        domainRoles |-> Append(st.domainRoles, <<roleName>>)]
                  ELSE [drcheck |-> st.drcheck \cup {domain \o roleName},
                        domains |-> st.domains,
                        domainRoles |->
                            [st.domainRoles EXCEPT ![CHOOSE i \in at : TRUE] =
                                Append(@, roleName)]]

(* for _, uri := range cert.URIs { ... } *)
RECURSIVE addURIs(_, _, _)
addURIs(st, uris, i) ==
    IF i > Len(uris) THEN st
    ELSE addURIs(IF HasPrefix(uris[i], roleCertURIPrefix)
                 THEN addDomainRoles(st, SplitN2(TrimPrefix(uris[i],
                                                            roleCertURIPrefix),
                                                 uriSeparator))
                 ELSE st,
                 uris, i + 1)

(* for _, cert := range peerCerts { ... } *)
RECURSIVE extractRoles(_, _, _)
extractRoles(st, peerCerts, i) ==
    IF i > Len(peerCerts) THEN st
    ELSE extractRoles(
             addURIs(addDomainRoles(st, SplitN2(peerCerts[i].subjectCN,
                                                roleInCNDelimiter)),
                     peerCerts[i].uris, 1),
             peerCerts, i + 1)

MaxPeerCerts == 2

RECURSIVE SeqsUpTo(_, _)
SeqsUpTo(S, n) ==
    IF n = 0 THEN {<<>>}
    ELSE SeqsUpTo(S, n - 1)
         \cup {Append(q, x) : q \in {t \in SeqsUpTo(S, n - 1) : Len(t) = n - 1},
                               x \in S}

PeerCertLists == SeqsUpTo(RoleCerts, MaxPeerCerts)

(* What policyd.CheckPolicy answers for a domain *)
CheckPolicyOutcomes == {Nil, <<"no match">>}

(* The orders in which `range domainRoles` may visit a map of n domains *)
MapOrders(n) ==
    {o \in [1..n -> 1..n] : \A i, j \in 1..n : o[i] = o[j] => i = j}

(* Mutant: the loop runs to its end and the last answer decides. *)
RECURSIVE checkDomainsLastDecides(_, _, _, _, _, _, _, _)
checkDomainsLastDecides(st, order, i, act, res, answers, err, trace) ==
    IF i > Len(order)
    THEN [err |-> IF err = Nil THEN Nil
                  ELSE Wrap(err, "role certificates unauthorized"),
          trace |-> trace]
    ELSE LET d == st.domains[order[i]]
             e == answers[d]
             ev == [EvBase EXCEPT !.ev = "checkPolicy", !.who = "policyd",
                                  !.domain = d,
                                  !.roles = st.domainRoles[order[i]],
                                  !.pact = act, !.pres = res,
                                  !.ok = (e = Nil), !.err = e]
         IN  checkDomainsLastDecides(st, order, i + 1, act, res, answers, e,
                                     Append(trace, ev))

(* for domain, roles := range domainRoles {                                *)
(*     if err = a.policyd.CheckPolicy(ctx, domain, roles, act, res);       *)
(*        err == nil { return nil } }                                      *)
(* return errors.Wrap(err, "role certificates unauthorized")               *)
RECURSIVE checkDomains(_, _, _, _, _, _, _, _)
checkDomains(st, order, i, act, res, answers, err, trace) ==
    IF i > Len(order)
    THEN [err |-> Wrap(err, "role certificates unauthorized"),
          trace |-> trace]
    ELSE LET d == st.domains[order[i]]
             e == answers[d]
             ev == [EvBase EXCEPT !.ev = "checkPolicy", !.who = "policyd",
                                  !.domain = d,
                                  !.roles = st.domainRoles[order[i]],
                                  !.pact = act, !.pres = res,
                                  !.ok = (e = Nil), !.err = e]
         IN  IF e = Nil
             THEN [err |-> Nil, trace |-> Append(trace, ev)]
             ELSE checkDomains(st, order, i + 1, act, res, answers, e,
                               Append(trace, ev))

(* VerifyRoleCert once policyd is known to be enabled: the map is built,   *)
(* an empty map is an invalid certificate, otherwise the domains are       *)
(* checked.  The trace lists the map and then the CheckPolicy calls.       *)
VerifyRoleCertEnabled(c, u, peerCerts, act, res, order, answers) ==
    LET st == extractRoles(NoRoles, peerCerts, 1)
        extracted == [i \in 1..Len(st.domains) |->
                        [EvBase EXCEPT !.ev = "extracted",
                                       !.domain = st.domains[i],
                                       !.roles = st.domainRoles[i]]]
    IN  IF Len(st.domains) = 0
        THEN Result(NoPrincipal, <<"invalid role certificate">>, c, u, <<>>)
        ELSE LET checked == checkDomains(st, order, 1, act, res, answers,
                                         Nil, <<>>)
             IN  Result(NoPrincipal, checked.err, c, u,
                        extracted \o checked.trace)

(* Mutant: the policy daemon is consulted whatever the configuration. *)
VerifyRoleCertAlwaysChecks(c, u, peerCerts, act, res, order, answers) ==
    VerifyRoleCertEnabled(c, u, peerCerts, act, res, order, answers)

(* authority.VerifyRoleCert(ctx, peerCerts, act, res) *)
VerifyRoleCert(c, u, peerCerts, act, res, order, answers) ==
    IF cfg.disablePolicyd
    THEN Result(NoPrincipal, Nil, c, u, <<>>)
    ELSE VerifyRoleCertEnabled(c, u, peerCerts, act, res, order, answers)

(* What a.policyd.GetPolicyCache returns: the assertions per domain *)
EmptyPolicyCache == [d \in {} |-> <<>>]

PolicyCaches == {EmptyPolicyCache, [d \in {"d"} |-> <<"allow r1 a r">>]}

(* Mutant: the policy store is asked whatever the configuration. *)
GetPolicyCacheAlwaysAsks(c, u, stored) ==
    Result(NoPrincipal, Nil, c, u,
           <<[EvBase EXCEPT !.ev = "getPolicyCache", !.who = "policyd",
                            !.policies = stored],
             [EvBase EXCEPT !.ev = "result", !.policies = stored]>>)

(* authority.GetPolicyCache(ctx): the map of the policy store, or a new    *)
(* empty map.  The last event of the trace carries the map returned.       *)
GetPolicyCache(c, u, stored) ==
    IF ~cfg.disablePolicyd
    THEN Result(NoPrincipal, Nil, c, u,
                <<[EvBase EXCEPT !.ev = "getPolicyCache", !.who = "policyd",
                                 !.policies = stored],
                  [EvBase EXCEPT !.ev = "result", !.policies = stored]>>)
    ELSE Result(NoPrincipal, Nil, c, u,
                <<[EvBase EXCEPT !.ev = "result",
                                 !.policies = EmptyPolicyCache]>>)

----------------------------------------------------------------------------
(* The state machine *)

(* The options New accepts.  initAuthorizers refuses an empty list, so at  *)
(* least one modality is enabled.  The engine and the dispatcher do not    *)
(* read disablePubkeyd and disableJwkd; both providers are left enabled.   *)
Configs ==
    {c \in [disablePubkeyd : {FALSE},
            disableJwkd : {FALSE},
            disablePolicyd : BOOLEAN,
            translator : BOOLEAN,
            resourcePrefix : {"/p"},
            enableRoleCert : BOOLEAN,
            enableAccessToken : BOOLEAN,
            enableRoleToken : BOOLEAN] :
        c.enableRoleCert \/ c.enableAccessToken \/ c.enableRoleToken}

(* The default options enable the three modalities. *)
DefaultModalities(c) ==
    c.enableRoleCert /\ c.enableAccessToken /\ c.enableRoleToken

NoRequest ==
    [tlsNil |-> TRUE, peers |-> <<>>, hasBearer |-> FALSE, bearer |-> "",
     roleHeader |-> "", rawQuery |-> ""]

EmptyCache == [k \in {} |-> NoPrincipal]

NoCall ==
    [op |-> "none", r |-> NoRequest, m |-> "", tok |-> "", act |-> "",
     res |-> "", query |-> "", cert |-> NilCert,
     p |-> NoPrincipal, err |-> Nil, trace |-> <<>>,
     cache |-> EmptyCache, usage |-> 0, now |-> 0,
     cacheAfter |-> EmptyCache, usageAfter |-> 0]

(* Mutant: an empty list of authorizers is accepted. *)
initAuthorizersErrorNever == Nil

(* if len(authorizers) < 1 { return errors.New("error no authorizers") } *)
initAuthorizersError ==
    IF Len(initAuthorizers) < 1 THEN <<"error no authorizers">> ELSE Nil

(* What New returns once the options are applied and the providers and     *)
(* processors are created: the wrapped error of initAuthorizers and no     *)
(* authority, or the authority with its authorizers.                       *)
NewAuthority ==
    IF initAuthorizersError # Nil
    THEN [state |-> "failed",
          err |-> Wrap(initAuthorizersError, "error create authorizers"),
          authorizers |-> <<>>]
    ELSE [state |-> "ok", err |-> Nil, authorizers |-> initAuthorizers]

NotBuilt == [state |-> "options", err |-> Nil, authorizers |-> <<>>]

(* Init has not been called *)
NoInit ==
    [pc |-> "none", g1 |-> "none", g2 |-> "none", egCancelled |-> FALSE,
     first |-> Nil, result |-> Nil, log |-> <<>>]

(* Start has not been called *)
NoRefresh == [who |-> "", err |-> Nil]

NoStart ==
    [pc |-> "none", got |-> NoRefresh, pending |-> Nil, sweeper |-> "off",
     started |-> {}, log |-> <<>>]

NoChan ==
    [made |-> FALSE, buf |-> <<>>, closed |-> FALSE, lastRead |-> Nil,
     sawClosed |-> FALSE]

(* Start has returned: the sweeper runs, the supervisor waits in its       *)
(* select, the error channel is empty.                                     *)
Supervising(started) ==
    [pc |-> "select", got |-> NoRefresh, pending |-> Nil,
     sweeper |-> "running", started |-> started, log |-> <<>>]

OpenChan == [NoChan EXCEPT !.made = TRUE]

EnabledProviders ==
    (IF cfg.disablePubkeyd THEN {} ELSE {"pubkeyd"})
    \cup (IF cfg.disablePolicyd THEN {} ELSE {"policyd"})
    \cup (IF cfg.disableJwkd THEN {} ELSE {"jwkd"})

(* The authority after New and Start, before any call *)
Constructed(configs) ==
    /\ cfg \in configs
    /\ cache = EmptyCache
    /\ cacheMemoryUsage = 0
    /\ now = 0
    /\ origin = EmptyCache
    /\ last = NoCall
    /\ calls = 0
    /\ inflight = {}
    /\ built = NewAuthority
    /\ ctx = "live"
    /\ warm = NoInit
    /\ sup = Supervising(EnabledProviders)
    /\ ech = OpenChan
    /\ budget = 0

Idle == last.op = "none"

(* History: the call that wrote a key, read off the trace of the call.     *)
SameCall(e, f) ==
    /\ e.m = f.m /\ e.tok = f.tok /\ e.act = f.act /\ e.res = f.res
    /\ e.query = f.query /\ e.cert = f.cert

OriginOf(e, trace) ==
    [m |-> e.m, tok |-> e.tok, act |-> e.act, res |-> e.res,
     query |-> e.query, cert |-> e.cert,
     validated |-> \E j \in 1..Len(trace) :
                      trace[j].ev = "validate" /\ SameCall(trace[j], e)
                      /\ trace[j].ok,
     policyRan |-> \E j \in 1..Len(trace) :
                      trace[j].ev = "policy" /\ SameCall(trace[j], e),
     policyOk |-> \E j \in 1..Len(trace) :
                      trace[j].ev = "policy" /\ SameCall(trace[j], e)
                      /\ trace[j].ok,
     asked |-> {<<trace[j].domain, trace[j].roles, trace[j].authorized>> :
                   j \in {i \in 1..Len(trace) :
                             trace[i].ev = "policy" /\ SameCall(trace[i], e)
                             /\ trace[i].ok}}]

Written(trace, k) ==
    {i \in 1..Len(trace) : trace[i].ev = "set" /\ trace[i].key = k}

(* A call may start when no call is in progress and the bound allows it.  *)
MayCall(bound) == Idle /\ calls < bound

(* One API call, from entry to the point where it is about to return `out`. *)
Recorded(op, r, m, tok, act, res, query, cert, out) ==
    /\ calls' = calls + 1
    /\ cache' = out.cache
    /\ cacheMemoryUsage' = out.usage
    /\ origin' = [k \in DOMAIN out.cache |->
                    IF Written(out.trace, k) # {}
                    THEN OriginOf(out.trace[CHOOSE i \in Written(out.trace, k) : TRUE],
                                  out.trace)
                    ELSE origin[k]]
    /\ last' = [op |-> op, r |-> r, m |-> m, tok |-> tok, act |-> act,
                res |-> res, query |-> query, cert |-> cert,
                p |-> out.p, err |-> out.err, trace |-> out.trace,
                cache |-> cache, usage |-> cacheMemoryUsage, now |-> now,
                cacheAfter |-> out.cache, usageAfter |-> out.usage]
    /\ UNCHANGED <<cfg, now, inflight, lifecycle>>

(* The caller has the result; the next call may start. *)
Return ==
    /\ ~Idle
    /\ last' = NoCall
    /\ UNCHANGED <<cfg, cache, cacheMemoryUsage, now, origin, calls, inflight,
                   lifecycle>>

(* One call of a.authorize by any of its callers: the four token           *)
(* operations (query "") and the dispatcher's access-token and role-token  *)
(* authorizers (query r.URL.RawQuery).  Only the access-token callers pass *)
(* a certificate.                                                          *)
AuthorizeCall ==
    /\ MayCall(MaxCalls)
    /\ \E m \in Modes, tok \in Toks, act \in Acts, res \in Ress,
          query \in Queries, cert \in Certs :
        /\ m = roleToken => cert = NilCert
        /\ \E env \in Envs(m, tok, cfg.disablePolicyd, cfg.translator) :
              Recorded("authorize", NoRequest, m, tok, act, res,
                       query, cert,
                       authorize(cache, cacheMemoryUsage, now, m, tok, act,
                                 res, query, cert, env))

DispatchEnvs(r) ==
    [at : Envs(accessToken, r.bearer, cfg.disablePolicyd, cfg.translator),
     rt : Envs(roleToken, r.roleHeader, cfg.disablePolicyd, cfg.translator)]

(* authority.Verify(r, act, res) *)
VerifyRequest ==
    /\ MayCall(MaxRequests)
    /\ \E r \in Requests, act \in Acts, res \in Ress :
        \E envs \in DispatchEnvs(r) :
            Recorded("Verify", r, "", "", act, res, "", NilCert,
                     Verify(initAuthorizers, 1, cache, cacheMemoryUsage, now,
                            r, act, res, envs))

(* authority.Authorize(r, act, res) *)
AuthorizeRequest ==
    /\ MayCall(MaxRequests)
    /\ \E r \in Requests, act \in Acts, res \in Ress :
        \E envs \in DispatchEnvs(r) :
            Recorded("Authorize", r, "", "", act, res, "", NilCert,
                     Authorize(initAuthorizers, 1, cache, cacheMemoryUsage, now,
                               r, act, res, envs))

(* The request that carries the peer certificates of a role-certificate  *)
(* call                                                                    *)
PeerRequest(peerCerts) ==
    [NoRequest EXCEPT !.tlsNil = FALSE, !.peers = peerCerts]

(* authority.VerifyRoleCert(ctx, peerCerts, act, res): the order of the   *)
(* map iteration and the answers of policyd are free.                      *)
VerifyRoleCertCall ==
    /\ MayCall(MaxCalls)
    /\ \E peerCerts \in PeerCertLists, act \in Acts, res \in Ress :
        LET domains == extractRoles(NoRoles, peerCerts, 1).domains
        IN  \E order \in MapOrders(Len(domains)) :
            \E answers \in [Range(domains) -> CheckPolicyOutcomes] :
                Recorded("VerifyRoleCert", PeerRequest(peerCerts), "", "",
                         act, res, "", NilCert,
                         VerifyRoleCert(cache, cacheMemoryUsage, peerCerts,
                                        act, res, order, answers))

(* authority.AuthorizeRoleCert(ctx, peerCerts, act, res) *)
AuthorizeRoleCertCall ==
    /\ MayCall(MaxCalls)
    /\ \E peerCerts \in PeerCertLists, act \in Acts, res \in Ress :
        Recorded("AuthorizeRoleCert", PeerRequest(peerCerts), "", "",
                 act, res, "", NilCert,
                 AuthorizeRoleCert(cache, cacheMemoryUsage, peerCerts,
                                   act, res))

(* authority.GetPolicyCache(ctx) *)
GetPolicyCacheCall ==
    /\ MayCall(MaxCalls)
    /\ \E stored \in PolicyCaches :
        Recorded("GetPolicyCache", NoRequest, "", "", "", "", "", NilCert,
                 GetPolicyCache(cache, cacheMemoryUsage, stored))

(* The certificates an access-token caller may present *)
BindingCerts == {NilCert, Cert1, Cert2}

(* authority.VerifyRoleToken(ctx, tok, act, res) *)
VerifyRoleTokenCall ==
    /\ MayCall(MaxCalls)
    /\ \E tok \in Toks, act \in Acts, res \in Ress :
        \E env \in Envs(roleToken, tok, cfg.disablePolicyd, cfg.translator) :
            Recorded("VerifyRoleToken", NoRequest, roleToken, tok, act, res,
                     "", NilCert,
                     VerifyRoleToken(cache, cacheMemoryUsage, now, tok, act,
                                     res, env))

(* authority.AuthorizeRoleToken(ctx, tok, act, res) *)
AuthorizeRoleTokenCall ==
    /\ MayCall(MaxCalls)
    /\ \E tok \in Toks, act \in Acts, res \in Ress :
        \E env \in Envs(roleToken, tok, cfg.disablePolicyd, cfg.translator) :
            Recorded("AuthorizeRoleToken", NoRequest, roleToken, tok, act, res,
                     "", NilCert,
                     AuthorizeRoleToken(cache, cacheMemoryUsage, now, tok, act,
                                        res, env))

(* authority.VerifyAccessToken(ctx, tok, act, res, cert) *)
VerifyAccessTokenCall ==
    /\ MayCall(MaxCalls)
    /\ \E tok \in Toks, act \in Acts, res \in Ress, cert \in BindingCerts :
        \E env \in Envs(accessToken, tok, cfg.disablePolicyd, cfg.translator) :
            Recorded("VerifyAccessToken", NoRequest, accessToken, tok, act,
                     res, "", cert,
                     VerifyAccessToken(cache, cacheMemoryUsage, now, tok, act,
                                       res, cert, env))

(* authority.AuthorizeAccessToken(ctx, tok, act, res, cert) *)
AuthorizeAccessTokenCall ==
    /\ MayCall(MaxCalls)
    /\ \E tok \in Toks, act \in Acts, res \in Ress, cert \in BindingCerts :
        \E env \in Envs(accessToken, tok, cfg.disablePolicyd, cfg.translator) :
            Recorded("AuthorizeAccessToken", NoRequest, accessToken, tok, act,
                     res, "", cert,
                     AuthorizeAccessToken(cache, cacheMemoryUsage, now, tok,
                                          act, res, cert, env))

(* The answers of Envs and, beside them, those in which the validator     *)
(* accepts a credential that is in its last moment: its expiryTime is the  *)
(* time of the call.                                                       *)
ExpiringEnvs(m, tok, disablePolicyd, translator) ==
    Envs(m, tok, disablePolicyd, translator)
    \cup {[e EXCEPT !.val.expiryTime = now] :
              e \in {x \in Envs(m, tok, disablePolicyd, translator) : x.val.ok}}

(* A call of a.authorize whose credential may be about to expire *)
AuthorizeExpiringCall ==
    /\ MayCall(MaxCalls)
    /\ \E m \in Modes, tok \in Toks, act \in Acts, res \in Ress :
        \E env \in ExpiringEnvs(m, tok, cfg.disablePolicyd, cfg.translator) :
            Recorded("authorize", NoRequest, m, tok, act, res, "", NilCert,
                     authorize(cache, cacheMemoryUsage, now, m, tok, act,
                               res, "", NilCert, env))

(* Time passes. *)
Tick ==
    /\ Idle
    /\ now < MaxTime
    /\ now' = now + 1
    /\ UNCHANGED <<cfg, cache, cacheMemoryUsage, origin, last, calls, inflight,
                   lifecycle>>

RECURSIVE SumUsage(_, _)
SumUsage(c, ks) ==
    IF ks = {} THEN 0
    ELSE LET k == CHOOSE x \in ks : TRUE
         IN  principalCacheMemoryUsage(k, c[k].val) + SumUsage(c, ks \ {k})

(* authority.cacheExpiredHook, for every entry the sweep evicts *)
cacheExpiredHook(u, c, gone) == u - SumUsage(c, gone)

(* The cache's sweep (StartExpired, every cacheExp/2, until the           *)
(* supervisor stops it): every expired entry is deleted and handed to      *)
(* cacheExpiredHook.                                                       *)
Sweep ==
    LET gone == ExpiredKeys(cache, now)
    IN  /\ Idle
        /\ sup.sweeper = "running"
        /\ gone # {}
        /\ cache' = [k \in DOMAIN cache \ gone |-> cache[k]]
        /\ origin' = [k \in DOMAIN cache \ gone |-> origin[k]]
        /\ cacheMemoryUsage' = cacheExpiredHook(cacheMemoryUsage, cache, gone)
        /\ UNCHANGED <<cfg, now, last, calls, inflight, lifecycle>>

(* The engine: calls of authorize, the clock and the sweep. *)
Init == Constructed({c \in Configs : DefaultModalities(c)})

Next ==
    \/ AuthorizeCall
    \/ Return
    \/ Tick
    \/ Sweep

Spec == Init /\ [][Next]_vars

(* Concurrent calls of authorize.  A call that hits the cache or fails     *)
(* writes nothing shared and is one step.  A call that misses and succeeds *)
(* is three: the lookup with the validation and the policy check behind    *)
(* it, a.cache.SetWithExpire, a.cacheMemoryUsage.Add; other calls, the     *)
(* clock and the sweep run in between.                                     *)
BeginCall ==
    /\ MayCall(MaxCalls)
    /\ \E m \in Modes, tok \in Toks, act \in Acts, res \in Ress,
          query \in Queries, cert \in Certs :
        /\ m = roleToken => cert = NilCert
        /\ \E env \in Envs(m, tok, cfg.disablePolicyd, cfg.translator) :
              LET out == authorize(cache, cacheMemoryUsage, now, m, tok, act,
                                   res, query, cert, env)
                  sets == {i \in 1..Len(out.trace) : out.trace[i].ev = "set"}
              IN  inflight' =
                      IF sets = {} THEN inflight
                      ELSE inflight \cup
                           {[id |-> calls + 1, pc |-> "set",
                             key |-> out.trace[CHOOSE i \in sets : TRUE].key,
                             p |-> out.p,
                             by |-> OriginOf(out.trace[1], out.trace)]}
    /\ calls' = calls + 1
    /\ UNCHANGED <<cfg, cache, cacheMemoryUsage, now, origin, last, lifecycle>>

(* Mutant: an entry that is already in the cache is kept. *)
SetStepKeepsFirst ==
    \E f \in inflight :
        /\ f.pc = "set"
        /\ cache' = IF f.key \in DOMAIN cache THEN cache
                     ELSE SetWithExpire(cache, f.key, f.p, now, CacheExp)
        /\ origin' = [k \in DOMAIN cache \cup {f.key} |->
                         IF k = f.key /\ k \notin DOMAIN cache THEN f.by
                         ELSE origin[k]]
        /\ inflight' = (inflight \ {f}) \cup {[f EXCEPT !.pc = "add"]}
        /\ UNCHANGED <<cfg, cacheMemoryUsage, now, last, calls, lifecycle>>

(* a.cache.SetWithExpire(key.String(), p, a.cacheExp) *)
SetStep ==
    \E f \in inflight :
        /\ f.pc = "set"
        /\ cache' = SetWithExpire(cache, f.key, f.p, now, CacheExp)
        /\ origin' = [k \in DOMAIN cache \cup {f.key} |->
                         IF k = f.key THEN f.by ELSE origin[k]]
        /\ inflight' = (inflight \ {f}) \cup {[f EXCEPT !.pc = "add"]}
        /\ UNCHANGED <<cfg, cacheMemoryUsage, now, last, calls, lifecycle>>

(* a.cacheMemoryUsage.Add(principalCacheMemoryUsage(key.String(), p)) *)
AddStep ==
    \E f \in inflight :
        /\ f.pc = "add"
        /\ cacheMemoryUsage' =
              cacheMemoryUsage + principalCacheMemoryUsage(f.key, f.p)
        /\ inflight' = inflight \ {f}
        /\ UNCHANGED <<cfg, cache, now, origin, last, calls, lifecycle>>

InitConcurrent == Constructed({c \in Configs : DefaultModalities(c)})

NextConcurrent ==
    \/ BeginCall
    \/ SetStep
    \/ AddStep
    \/ Tick
    \/ Sweep

SpecConcurrent == InitConcurrent /\ [][NextConcurrent]_vars

----------------------------------------------------------------------------
(* The lifecycle: Init's warm-up and Start's supervisor *)

(* ctx.Err() of a cancelled context *)
ctxErr == <<"context canceled">>

(* What a provider's Update answers: nil, its own failure or, once the     *)
(* group context is done, the context's error.                             *)
UpdateOutcomes(who, done) ==
    {Nil, <<who \o " update failed">>} \cup (IF done THEN {ctxErr} ELSE {})

(* The options of the lifecycle: any of the three providers disabled. *)
LifeConfigs ==
    [disablePubkeyd : BOOLEAN,
     disableJwkd : BOOLEAN,
     disablePolicyd : BOOLEAN,
     translator : {FALSE},
     resourcePrefix : {"/p"},
     enableRoleCert : {TRUE},
     enableAccessToken : {TRUE},
     enableRoleToken : {TRUE}]

(* The key provider alone, so that the errors queued in the channel are    *)
(* all alike.                                                              *)
OnlyPubkeyd ==
    {c \in LifeConfigs :
        ~c.disablePubkeyd /\ c.disablePolicyd /\ c.disableJwkd}

(* New has returned the authority; neither Init nor Start has been called. *)
Built(configs, undrained) ==
    /\ cfg \in configs
    /\ cache = EmptyCache
    /\ cacheMemoryUsage = 0
    /\ now = 0
    /\ origin = EmptyCache
    /\ last = NoCall
    /\ calls = 0
    /\ inflight = {}
    /\ built = NewAuthority
    /\ ctx \in {"live", "cancelled"}
    /\ warm = NoInit
    /\ sup = NoStart
    /\ ech = NoChan
    /\ budget = undrained

(* The caller cancels the context. *)
CancelCtx ==
    /\ ctx = "live"
    /\ Idle
    /\ ctx' = "cancelled"
    /\ UNCHANGED <<cfg, cache, cacheMemoryUsage, now, origin, last, calls,
                   inflight, built, warm, sup, ech, budget>>

LogEv(ev, who, err) == [ev |-> ev, who |-> who, err |-> err]

(* egCtx.Done() is closed: errgroup cancelled it on a first error, or the  *)
(* parent context is cancelled.                                            *)
egDone == warm.egCancelled \/ ctx = "cancelled"

(* Mutant: the select is skipped. *)
EntersWorkAlways(done) == TRUE

(* select { case <-egCtx.Done(): return egCtx.Err(); default: ... } *)
EntersWork(done) == ~done

(* Group 1 after the select: the first Update it calls, if any *)
G1First ==
    IF ~cfg.disablePubkeyd THEN "pubkeyd"
    ELSE IF ~cfg.disablePolicyd THEN "policyd" ELSE "done"

(* Mutant: the policy store's Update is called whatever the key           *)
(* provider's Update returned.                                             *)
G1AfterPubkeydAnyway(err) ==
    IF ~cfg.disablePolicyd THEN "policyd" ELSE "done"

(* Group 1 after a.pubkeyd.Update(egCtx) returned err *)
G1AfterPubkeyd(err) ==
    IF err # Nil THEN "done"
    ELSE IF ~cfg.disablePolicyd THEN "policyd" ELSE "done"

(* Mutant: the error is kept but egCtx is not cancelled. *)
GroupReturnsNoCancel(w, g, err) ==
    [w EXCEPT !.first = IF w.first = Nil THEN err ELSE w.first,
              !.log = Append(w.log, LogEv("done", g, err))]

(* errgroup: a group function returned err.  The first non-nil error is    *)
(* kept and cancels egCtx.                                                 *)
GroupReturns(w, g, err) ==
    [w EXCEPT !.first = IF w.first = Nil THEN err ELSE w.first,
              !.egCancelled = w.egCancelled \/ err # Nil,
              !.log = Append(w.log, LogEv("done", g, err))]

(* eg.Wait() returns when every group function has returned. *)
InitMayReturn(w) == w.g1 = "done" /\ w.g2 \in {"done", "absent"}

LifeFrame ==
    UNCHANGED <<cfg, cache, cacheMemoryUsage, now, origin, last, calls,
                inflight, built, ctx, sup, ech, budget>>

(* authority.Init(ctx): the two group functions are handed to errgroup. *)
InitCall ==
    /\ built.state = "ok" /\ warm.pc = "none" /\ sup.pc = "none"
    /\ warm' = [NoInit EXCEPT
                   !.pc = "running",
                   !.g1 = "start",
                   !.g2 = IF cfg.disableJwkd THEN "absent" ELSE "start",
                   !.log = <<LogEv("Init", ctx, Nil)>>]
    /\ LifeFrame

(* Group 1 is scheduled: the select, then the first Update is called. *)
G1Enter ==
    /\ warm.pc = "running" /\ warm.g1 = "start"
    /\ warm' =
          IF ~EntersWork(egDone)
          THEN [GroupReturns(warm, "g1", ctxErr) EXCEPT !.g1 = "done"]
          ELSE LET w == [warm EXCEPT !.log = Append(@, LogEv("enter", "g1", Nil))]
               IN  IF G1First = "done"
                   THEN [GroupReturns(w, "g1", Nil) EXCEPT !.g1 = "done"]
                   ELSE [w EXCEPT !.g1 = G1First,
                                  !.log = Append(@, LogEv("call", G1First, Nil))]
    /\ LifeFrame

(* a.pubkeyd.Update(egCtx) returns; on nil the policy store's Update is    *)
(* called.                                                                 *)
G1PubkeydReturns ==
    /\ warm.pc = "running" /\ warm.g1 = "pubkeyd"
    /\ \E err \in UpdateOutcomes("pubkeyd", egDone) :
          LET w == [warm EXCEPT !.log = Append(@, LogEv("return", "pubkeyd", err))]
          IN  warm' =
                IF G1AfterPubkeyd(err) = "done"
                THEN [GroupReturns(w, "g1", err) EXCEPT !.g1 = "done"]
                ELSE [w EXCEPT !.g1 = "policyd",
                               !.log = Append(@, LogEv("call", "policyd", Nil))]
    /\ LifeFrame

(* a.policyd.Update(egCtx) returns and group 1 returns its error. *)
G1PolicydReturns ==
    /\ warm.pc = "running" /\ warm.g1 = "policyd"
    /\ \E err \in UpdateOutcomes("policyd", egDone) :
          LET w == [warm EXCEPT !.log = Append(@, LogEv("return", "policyd", err))]
          IN  warm' = [GroupReturns(w, "g1", err) EXCEPT !.g1 = "done"]
    /\ LifeFrame

(* Mutant: group 2 is run once group 1 has returned. *)
G2EnterAfterG1 ==
    /\ warm.pc = "running" /\ warm.g2 = "start" /\ warm.g1 = "done"
    /\ warm' =
          IF ~EntersWork(egDone)
          THEN [GroupReturns(warm, "g2", ctxErr) EXCEPT !.g2 = "done"]
          ELSE [warm EXCEPT !.g2 = "jwkd",
                            !.log = Append(@, LogEv("enter", "g2", Nil))
                                    \o <<LogEv("call", "jwkd", Nil)>>]
    /\ LifeFrame

(* Group 2 is scheduled: the select, then a.jwkd.Update(egCtx) is called. *)
G2Enter ==
    /\ warm.pc = "running" /\ warm.g2 = "start"
    /\ warm' =
          IF ~EntersWork(egDone)
          THEN [GroupReturns(warm, "g2", ctxErr) EXCEPT !.g2 = "done"]
          ELSE [warm EXCEPT !.g2 = "jwkd",
                            !.log = Append(@, LogEv("enter", "g2", Nil))
                                    \o <<LogEv("call", "jwkd", Nil)>>]
    /\ LifeFrame

(* a.jwkd.Update(egCtx) returns and group 2 returns its error. *)
G2JwkdReturns ==
    /\ warm.pc = "running" /\ warm.g2 = "jwkd"
    /\ \E err \in UpdateOutcomes("jwkd", egDone) :
          LET w == [warm EXCEPT !.log = Append(@, LogEv("return", "jwkd", err))]
          IN  warm' = [GroupReturns(w, "g2", err) EXCEPT !.g2 = "done"]
    /\ LifeFrame

(* return eg.Wait() *)
InitReturns ==
    /\ warm.pc = "running"
    /\ InitMayReturn(warm)
    /\ warm' = [warm EXCEPT !.pc = "returned", !.result = warm.first,
                            !.egCancelled = TRUE,
                            !.log = Append(@, LogEv("Init returns", ctx,
                                                     warm.first))]
    /\ LifeFrame

(* What a provider sends on the channel its Start returned: the outcome of *)
(* a refresh.                                                              *)
RefreshOutcomes(who) == {Nil, <<who \o " refresh failed">>}

(* Mutant: every refresh error is wrapped as a key provider error. *)
PrefixPubkeyOnly(who) == "update pubkey error"

(* The prefix of the select case that receives from the provider *)
Prefix(who) ==
    CASE who = "pubkeyd" -> "update pubkey error"
      [] who = "policyd" -> "update policy error"
      [] who = "jwkd" -> "update jwk error"

(* Mutant: a refresh error ends the loop. *)
OnRefreshAborts(s, who, err) ==
    IF err = Nil THEN s
    ELSE [s EXCEPT !.pc = "send", !.got = [who |-> who, err |-> err],
                   !.pending = Wrap(err, Prefix(who))]

(* case err := <-cech: if err != nil { ech <- errors.Wrap(err, "...") } *)
OnRefresh(s, who, err) ==
    IF err = Nil THEN s
    ELSE [s EXCEPT !.pc = "fwd", !.got = [who |-> who, err |-> err],
                   !.pending = Wrap(err, Prefix(who))]

(* Mutant: ctx.Err() is written before the cache is cleared. *)
AfterShutdownStepSendFirst(step) ==
    CASE step = "stop" -> "send"
      [] step = "send" -> "clear"
      [] step = "clear" -> "close"
      [] step = "close" -> "exited"

(* case <-ctx.Done(): g.Stop(); g.Clear(); ech <- ctx.Err(); return, and   *)
(* the deferred close(ech)                                                 *)
AfterShutdownStep(step) ==
    CASE step = "stop" -> "clear"
      [] step = "clear" -> "send"
      [] step = "send" -> "close"
      [] step = "close" -> "exited"

ShutdownStepDone(s, step) == [s EXCEPT !.pc = AfterShutdownStep(step),
                           !.log = Append(@, step)]

StartFrame ==
    UNCHANGED <<cfg, cacheMemoryUsage, now, last, calls, inflight, built, ctx,
                warm, budget>>

(* authority.Start(ctx): the channel is made, the sweeper and the enabled  *)
(* providers are started, the supervisor goroutine is spawned.             *)
StartCall ==
    /\ built.state = "ok" /\ sup.pc = "none" /\ warm.pc = "none"
    /\ sup' = Supervising(EnabledProviders)
    /\ ech' = OpenChan
    /\ UNCHANGED <<cache, origin>>
    /\ StartFrame

(* The select receives a refresh outcome from a started provider. *)
Receive ==
    /\ sup.pc = "select" /\ Idle
    /\ Len(ech.buf) < budget
    /\ \E who \in sup.started :
          \E err \in RefreshOutcomes(who) :
              sup' = OnRefresh(sup, who, err)
    /\ UNCHANGED <<cache, origin, ech>>
    /\ StartFrame

(* ech <- errors.Wrap(err, "..."): the send completes when the channel has *)
(* room.                                                                   *)
Forward ==
    /\ sup.pc = "fwd"
    /\ Len(ech.buf) < ErrChanCap
    /\ ech' = [ech EXCEPT !.buf = Append(@, sup.pending)]
    /\ sup' = [sup EXCEPT !.pc = "select", !.got = NoRefresh, !.pending = Nil]
    /\ UNCHANGED <<cache, origin>>
    /\ StartFrame

(* The select takes <-ctx.Done(): g.Stop() *)
ShutStop ==
    /\ sup.pc = "select" /\ Idle
    /\ ctx = "cancelled"
    /\ sup' = [ShutdownStepDone(sup, "stop") EXCEPT !.sweeper = "stopped"]
    /\ UNCHANGED <<cache, origin, ech>>
    /\ StartFrame

(* g.Clear() *)
ShutClear ==
    /\ sup.pc = "clear"
    /\ cache' = EmptyCache
    /\ origin' = EmptyCache
    /\ sup' = ShutdownStepDone(sup, "clear")
    /\ UNCHANGED ech
    /\ StartFrame

(* ech <- ctx.Err() *)
ShutSend ==
    /\ sup.pc = "send"
    /\ Len(ech.buf) < ErrChanCap
    /\ ech' = [ech EXCEPT !.buf = Append(@, ctxErr)]
    /\ sup' = ShutdownStepDone(sup, "send")
    /\ UNCHANGED <<cache, origin>>
    /\ StartFrame

(* return, and the deferred close(ech) *)
ShutClose ==
    /\ sup.pc = "close"
    /\ ech' = [ech EXCEPT !.closed = TRUE]
    /\ sup' = ShutdownStepDone(sup, "close")
    /\ UNCHANGED <<cache, origin>>
    /\ StartFrame

(* The caller receives a value from the channel. *)
Drain ==
    /\ ech.made /\ ech.buf # <<>>
    /\ ech' = [ech EXCEPT !.buf = Tail(@), !.lastRead = Head(ech.buf)]
    /\ UNCHANGED <<cache, origin, sup>>
    /\ StartFrame

(* The caller's receive finds the channel closed and empty. *)
SeeClosed ==
    /\ ech.closed /\ ech.buf = <<>> /\ ~ech.sawClosed
    /\ ech' = [ech EXCEPT !.sawClosed = TRUE]
    /\ UNCHANGED <<cache, origin, sup>>
    /\ StartFrame

(* A request is served while the supervisor waits with nothing queued. *)
Serve ==
    /\ sup.pc = "select" /\ ech.buf = <<>> /\ ctx = "live"
    /\ AuthorizeRequest

InitLife ==
    \/ Built(LifeConfigs, MaxUndrained)
    \/ Built(OnlyPubkeyd, ErrChanCap + 1)

(* VerifyRoleCert and GetPolicyCache are called while the supervisor       *)
(* waits with nothing queued.                                              *)
ServeRoleCert ==
    /\ sup.pc = "select" /\ ech.buf = <<>> /\ ctx = "live"
    /\ calls < MaxRequests
    /\ VerifyRoleCertCall

ServePolicyCache ==
    /\ sup.pc = "select" /\ ech.buf = <<>> /\ ctx = "live"
    /\ calls < MaxRequests
    /\ GetPolicyCacheCall

NextLife ==
    \/ CancelCtx
    \/ InitCall
    \/ G1Enter
    \/ G1PubkeydReturns
    \/ G1PolicydReturns
    \/ G2Enter
    \/ G2JwkdReturns
    \/ InitReturns
    \/ StartCall
    \/ Receive
    \/ Forward
    \/ ShutStop
    \/ ShutClear
    \/ ShutSend
    \/ ShutClose
    \/ Drain
    \/ SeeClosed
    \/ Serve
    \/ ServeRoleCert
    \/ ServePolicyCache
    \/ Return

SpecLife == InitLife /\ [][NextLife]_vars

(* Start alone, with a supervisor that is scheduled fairly: a send that    *)
(* can complete does complete, the statements after <-ctx.Done() are       *)
(* executed, and the select, which chooses at random among its ready       *)
(* cases, does not pass over <-ctx.Done() forever.  Nothing is assumed of  *)
(* the providers or of the reader of the channel.                          *)
NextShutdown ==
    \/ CancelCtx
    \/ StartCall
    \/ Receive
    \/ Forward
    \/ ShutStop
    \/ ShutClear
    \/ ShutSend
    \/ ShutClose
    \/ Drain
    \/ SeeClosed

SupervisorFairness ==
    /\ WF_vars(Forward)
    /\ SF_vars(ShutStop)
    /\ WF_vars(ShutClear)
    /\ WF_vars(ShutSend)
    /\ WF_vars(ShutClose)

SpecShutdown == InitLife /\ [][NextShutdown]_vars /\ SupervisorFairness


(* Construction: New on any combination of the options. *)
AllOptions ==
    [disablePubkeyd : BOOLEAN,
     disableJwkd : BOOLEAN,
     disablePolicyd : BOOLEAN,
     translator : BOOLEAN,
     resourcePrefix : {"/p"},
     enableRoleCert : BOOLEAN,
     enableAccessToken : BOOLEAN,
     enableRoleToken : BOOLEAN]

InitNew ==
    /\ cfg \in AllOptions
    /\ cache = EmptyCache
    /\ cacheMemoryUsage = 0
    /\ now = 0
    /\ origin = EmptyCache
    /\ last = NoCall
    /\ calls = 0
    /\ inflight = {}
    /\ built = NotBuilt
    /\ ctx = "live"
    /\ warm = NoInit
    /\ sup = NoStart
    /\ ech = NoChan
    /\ budget = 0

(* New(opts...) *)
New ==
    /\ built.state = "options"
    /\ built' = NewAuthority
    /\ UNCHANGED <<cfg, cache, cacheMemoryUsage, now, origin, last, calls,
                   inflight, ctx, warm, sup, ech, budget>>

NextNew == New

SpecNew == InitNew /\ [][NextNew]_vars

(* The dispatcher: Verify and Authorize on requests, under every           *)
(* combination of enabled modalities.                                      *)
(* The role-certificate operations, on an authority whose cache a request *)
(* may have filled.                                                        *)
InitRoleCert == Constructed({c \in Configs : DefaultModalities(c) /\ ~c.translator})

NextRoleCert ==
    \/ AuthorizeRequest
    \/ VerifyRoleCertCall
    \/ AuthorizeRoleCertCall
    \/ Return

SpecRoleCert == InitRoleCert /\ [][NextRoleCert]_vars

(* The four token operations, the dispatcher on a fresh authority, the    *)
(* clock and the sweep                                                     *)
InitTokens == Constructed({c \in Configs : DefaultModalities(c)})

NextTokens ==
    \/ VerifyRoleTokenCall
    \/ AuthorizeRoleTokenCall
    \/ VerifyAccessTokenCall
    \/ AuthorizeAccessTokenCall
    \/ VerifyRequest
    \/ AuthorizeRequest
    \/ Return
    \/ Tick
    \/ Sweep

SpecTokens == InitTokens /\ [][NextTokens]_vars

(* Calls with credentials of any remaining lifetime, the clock and the     *)
(* sweep                                                                   *)
InitExpiry == Constructed({c \in Configs : DefaultModalities(c)})

NextExpiry ==
    \/ AuthorizeExpiringCall
    \/ Return
    \/ Tick
    \/ Sweep

SpecExpiry == InitExpiry /\ [][NextExpiry]_vars

InitDispatch == Constructed(Configs)

NextDispatch ==
    \/ VerifyRequest
    \/ AuthorizeRequest
    \/ Return
    \/ Tick
    \/ Sweep

SpecDispatch == InitDispatch /\ [][NextDispatch]_vars

----------------------------------------------------------------------------
(* Reading the last call *)

EventsOf(l, kind) == SelectSeq(l.trace, LAMBDA e : e.ev = kind)

Did(l, kind) == \E i \in 1..Len(l.trace) : l.trace[i].ev = kind

Dispatched == last.op \in {"Verify", "Authorize"}

(* The authorizers the dispatcher invoked, in the order it invoked them *)
InvokedOrder(l) ==
    LET a == EventsOf(l, "authorizer") IN [i \in 1..Len(a) |-> a[i].who]

(* The enabled modalities in the order role certificate, access token,     *)
(* role token                                                              *)
EnabledInOrder ==
    SelectSeq(<<"rolecert", "accesstoken", "roletoken">>,
              LAMBDA w : \/ w = "rolecert" /\ cfg.enableRoleCert
                         \/ w = "accesstoken" /\ cfg.enableAccessToken
                         \/ w = "roletoken" /\ cfg.enableRoleToken)

IsPrefix(s, t) == Len(s) <= Len(t) /\ s = SubSeq(t, 1, Len(s))

----------------------------------------------------------------------------
(* C1: Verify returns nil, and Authorize returns a Principal with a nil    *)
(* error, exactly when some enabled authorizer returned success for the    *)
(* request; a call that fails has asked every enabled authorizer, each of  *)
(* them failed, and the result is ErrInvalidCredentials and not the error  *)
(* of any of them.                                                         *)
C1_OrSemantics ==
    Dispatched =>
        LET rets == EventsOf(last, "return")
            success == \E i \in 1..Len(rets) : rets[i].err = Nil
        IN  /\ (last.err = Nil) <=> success
            /\ (last.op = "Authorize" /\ last.err = Nil) => last.p.kind # "nil"
            /\ ~success =>
                  /\ last.err = ErrInvalidCredentials
                  /\ InvokedOrder(last) = EnabledInOrder
                  /\ Len(rets) = Len(EnabledInOrder)
                  /\ \A i \in 1..Len(rets) : rets[i].err # last.err

(* A Verify in which one authorizer failed and a later one succeeded *)
C1_Witness ==
    /\ last.op = "Verify"
    /\ last.err = Nil
    /\ LET rets == EventsOf(last, "return")
       IN  Len(rets) >= 2 /\ rets[1].err # Nil /\ rets[Len(rets)].err = Nil

(* C2: the authorizers are invoked in the order role certificate, access   *)
(* token, role token; the call returns what the first one that succeeds    *)
(* returns, and no authorizer after it is invoked.                         *)
C2_FirstSuccessInOrder ==
    Dispatched =>
        LET rets == EventsOf(last, "return")
            n == Len(rets)
        IN  /\ IsPrefix(InvokedOrder(last), EnabledInOrder)
            /\ n = Len(InvokedOrder(last))
            /\ \A i \in 1..n : rets[i].who = EnabledInOrder[i]
            /\ \A i \in 1..n : rets[i].err = Nil => i = n
            /\ last.err = Nil =>
                  /\ n >= 1 /\ rets[n].err = Nil
                  /\ last.trace[Len(last.trace)] = rets[n]
                  /\ last.op = "Authorize" => last.p = rets[n].p

(* The access-token authorizer succeeds after the role-certificate one     *)
(* failed, and the role-token one, enabled and given a token, is not asked *)
C2_Witness ==
    /\ last.op = "Authorize"
    /\ last.err = Nil
    /\ InvokedOrder(last) = <<"rolecert", "accesstoken">>
    /\ cfg.enableRoleToken
    /\ last.r.roleHeader # ""
    /\ last.p.kind = "oAuthAccessToken"

----------------------------------------------------------------------------
(* Reading a call of authorize *)

Engine == last.op = "authorize"

(* The DecisionKey the call looked up *)
KeyOf(l) == EventsOf(l, "get")[1].key

(* The call succeeded without asking the validator: its Principal came     *)
(* from the cache.                                                         *)
ServedFromCache(l) ==
    l.op = "authorize" /\ l.err = Nil /\ Did(l, "get") /\ ~Did(l, "validate")

(* The components the claims say the key identifies *)
Tuple(x) ==
    <<x.tok, x.cert.present, x.cert.issuerCN, x.cert.subjectCN, x.act, x.res,
      IF cfg.translator THEN x.query ELSE "">>

(* The key as the specification spells it out, from the call's arguments *)
ExpectedKey(x) ==
    x.tok
    \o (IF x.cert.present
        THEN ":" \o x.cert.issuerCN \o ":" \o x.cert.subjectCN ELSE "")
    \o (IF ~cfg.disablePolicyd THEN ":" \o x.act \o ":" \o x.res ELSE "")
    \o (IF ~cfg.disablePolicyd /\ cfg.translator /\ x.query # ""
        THEN ":" \o x.query ELSE "")

EmptyActionResource == <<"empty action / resource">> \o ErrInvalidParameters

----------------------------------------------------------------------------
(* C3: an entry inserted by a call with a binding certificate is never     *)
(* returned as a cache hit to a call without a certificate, and an entry   *)
(* inserted by a call without a certificate is never returned to a call    *)
(* with one.                                                               *)
C3_CacheBindingSafety ==
    ServedFromCache(last) =>
        origin[KeyOf(last)].cert.present = last.cert.present

(* C4: two calls of authorize whose tuples (token, certificate presence    *)
(* and CNs, action, resource, query when a translator is configured)       *)
(* differ never have the same DecisionKey.  Stated with policy evaluation  *)
(* enabled, where every one of these components is written to the key:     *)
(* the call's key is the key of a cached entry only if the call's tuple is *)
(* the tuple of the call that inserted the entry.                          *)
C4_KeyIdentifiesInputs ==
    (Engine /\ ~cfg.disablePolicyd /\ Did(last, "get")) =>
        \A k \in DOMAIN last.cache \cap DOMAIN origin :
            KeyOf(last) = k => Tuple(origin[k]) = Tuple(last)

(* C5: every key authorize looks up or writes is the token, then           *)
(* ":issuerCN:subjectCN" exactly when a certificate is given, then         *)
(* ":act:res" (the caller's act and res) exactly when policy evaluation is *)
(* enabled, then ":query" exactly when policy evaluation is enabled, a     *)
(* translator is configured and the query is not empty; so a call whose    *)
(* tuple equals that of the call that inserted an entry has that entry's   *)
(* key.                                                                    *)
C5_KeyFormat ==
    Engine =>
        /\ \A i \in 1..Len(last.trace) :
              last.trace[i].ev \in {"get", "set"} =>
                  last.trace[i].key = ExpectedKey(last)
        /\ ~InvalidParameters(last.act, last.res) => Did(last, "get")
        /\ Did(last, "get") =>
              \A k \in DOMAIN last.cache \cap DOMAIN origin :
                  (Tuple(origin[k]) = Tuple(last)
                   /\ (cfg.disablePolicyd =>
                          origin[k].act = last.act /\ origin[k].res = last.res))
                      => KeyOf(last) = k

(* A call with a certificate and a query, translated for the policy store, *)
(* writes the key built from the caller's act and res                      *)
C5_Witness ==
    /\ Engine /\ last.cert.present /\ last.query = "q"
    /\ Did(last, "set")
    /\ EventsOf(last, "set")[1].key = "T:a:a:a:r:q"
    /\ EventsOf(last, "policy")[1].pact = "ta"
    /\ EventsOf(last, "policy")[1].pres = "/ptr"

(* C6: with policy evaluation enabled, a call with an empty act or res     *)
(* returns the "empty action / resource" InvalidParameters error without   *)
(* looking up the cache, asking the validator, the translator or the       *)
(* policy store, and leaves the cache and cacheMemoryUsage as they were.   *)
C6_EmptyActionResourceRejected ==
    (Engine /\ ~cfg.disablePolicyd /\ (last.act = "" \/ last.res = "")) =>
        /\ last.err = EmptyActionResource
        /\ last.p = NoPrincipal
        /\ \A i \in 1..Len(last.trace) :
              last.trace[i].ev \notin
                  {"get", "validate", "translate", "policy", "set"}
        /\ last.cacheAfter = last.cache
        /\ last.usageAfter = last.usage

(* The call is rejected while the cache holds a valid entry for its token *)
C6_Witness ==
    /\ Engine /\ ~cfg.disablePolicyd /\ last.act = "" /\ last.res # ""
    /\ last.err = EmptyActionResource
    /\ \E k \in DOMAIN last.cache :
          /\ origin[k].tok = last.tok
          /\ IsValid(last.cache[k], last.now)

(* C7: with policy evaluation disabled, authorize calls neither the        *)
(* translator nor the policy store, accepts an empty act and res, uses a   *)
(* key without act, res and query, and returns and caches a Principal      *)
(* whose authorizedRoles is empty.                                         *)
C7_DisabledPolicyShortCircuit ==
    cfg.disablePolicyd =>
        /\ \A k \in DOMAIN cache : cache[k].val.authorizedRoles = <<>>
        /\ Engine =>
              /\ ~Did(last, "translate") /\ ~Did(last, "policy")
              /\ last.err # EmptyActionResource
              /\ Did(last, "get")
              /\ KeyOf(last) =
                    (IF last.cert.present
                     THEN last.tok \o ":" \o last.cert.issuerCN
                                   \o ":" \o last.cert.subjectCN
                     ELSE last.tok)
              /\ last.err = Nil =>
                    /\ last.p.authorizedRoles = <<>>
                    /\ KeyOf(last) \in DOMAIN last.cacheAfter
                    /\ last.cacheAfter[KeyOf(last)].val = last.p
              /\ Did(last, "validate") =>
                    (last.err = Nil <=> Did(last, "set"))

(* With a translator configured and a query given, a call with empty act   *)
(* and res succeeds on a miss and caches its Principal under the token     *)
C7_Witness ==
    /\ cfg.disablePolicyd /\ cfg.translator
    /\ Engine /\ last.act = "" /\ last.res = "" /\ last.query = "q"
    /\ ~last.cert.present
    /\ last.err = Nil /\ Did(last, "set")
    /\ DOMAIN last.cacheAfter = {"T"}

(* C8: a call that passes the parameter check while the cache holds an     *)
(* unexpired entry under its key returns that entry's Principal with a nil *)
(* error, asks neither the validator nor the translator nor the policy     *)
(* store, and leaves the entries, their expiry times and cacheMemoryUsage  *)
(* as they were.                                                           *)
C8_CacheHitFrame ==
    (/\ Engine
     /\ ~(~cfg.disablePolicyd /\ (last.act = "" \/ last.res = ""))
     /\ ExpectedKey(last) \in DOMAIN last.cache
     /\ last.now <= last.cache[ExpectedKey(last)].expire) =>
        /\ last.err = Nil
        /\ last.p = last.cache[ExpectedKey(last)].val
        /\ ~Did(last, "validate") /\ ~Did(last, "translate")
        /\ ~Did(last, "policy") /\ ~Did(last, "set")
        /\ last.cacheAfter = last.cache
        /\ last.usageAfter = last.usage

(* A hit on an entry that was inserted at an earlier time *)
C8_Witness ==
    /\ ServedFromCache(last)
    /\ last.cache[KeyOf(last)].expire = last.now
    /\ last.now > 0
    /\ last.p.kind # "nil"

(* C9: on a miss, a validator error comes back wrapped as "error authorize *)
(* role token" or "error authorize access token" according to the mode, a  *)
(* translator error comes back as it is, a CheckPolicyRoles error comes    *)
(* back wrapped as "token unauthorized"; after a validator error neither   *)
(* the translator nor the policy store is asked, after a translator error  *)
(* the policy store is not asked.                                          *)
C9_MissErrors ==
    Engine =>
        /\ \A i \in 1..Len(last.trace) :
              (last.trace[i].ev = "validate" /\ ~last.trace[i].ok) =>
                  /\ last.m = roleToken =>
                        last.err = <<"error authorize role token",
                                     "invalid token">>
                  /\ last.m = accessToken =>
                        last.err = <<"error authorize access token",
                                     "invalid token">>
                  /\ ~Did(last, "translate") /\ ~Did(last, "policy")
        /\ \A i \in 1..Len(last.trace) :
              (last.trace[i].ev = "translate" /\ ~last.trace[i].ok) =>
                  /\ last.err = <<"translate failed">>
                  /\ ~Did(last, "policy")
        /\ \A i \in 1..Len(last.trace) :
              (last.trace[i].ev = "policy" /\ ~last.trace[i].ok) =>
                  last.err = <<"token unauthorized", "deny">>

(* An access-token call whose validator fails on a miss *)
C9_Witness ==
    /\ Engine /\ last.m = accessToken
    /\ ~cfg.disablePolicyd /\ cfg.translator
    /\ \E i \in 1..Len(last.trace) :
          last.trace[i].ev = "validate" /\ ~last.trace[i].ok
    /\ last.err = <<"error authorize access token", "invalid token">>

(* C10: every entry in the cache was inserted by a call whose validator    *)
(* succeeded and, when policy evaluation is enabled, whose                 *)
(* CheckPolicyRoles succeeded; a call that returns an error leaves the     *)
(* cache and cacheMemoryUsage as they were.                                *)
C10_OnlySuccessCached ==
    /\ DOMAIN origin = DOMAIN cache
    /\ \A k \in DOMAIN cache :
          /\ origin[k].validated
          /\ ~cfg.disablePolicyd => origin[k].policyOk
    /\ (Engine /\ last.err # Nil) =>
          /\ last.cacheAfter = last.cache
          /\ last.usageAfter = last.usage

(* The policy store denies a validated token while the cache holds an      *)
(* entry: the call fails and the cache keeps just that entry               *)
C10_Witness ==
    /\ Engine /\ last.err = <<"token unauthorized", "deny">>
    /\ last.cache # EmptyCache
    /\ cache = last.cache

----------------------------------------------------------------------------
(* The elements of a list *)

(* The Principal carries what CheckPolicyRoles answered for its domain and *)
(* roles to the call `o` that produced it                                  *)
PopulatedFrom(p, o) ==
    /\ o.policyRan /\ o.policyOk
    /\ o.asked = {<<p.domain, p.roles, p.authorizedRoles>>}

(* C11: with policy evaluation enabled, every Principal authorize returns, *)
(* on a miss or from the cache, has as authorizedRoles what                *)
(* CheckPolicyRoles answered for its domain and roles, and these are among *)
(* its roles; with policy evaluation disabled authorizedRoles stays empty. *)
C11_PrincipalSubset ==
    /\ \A k \in DOMAIN cache :
          /\ Range(cache[k].val.authorizedRoles) \subseteq Range(cache[k].val.roles)
          /\ ~cfg.disablePolicyd => PopulatedFrom(cache[k].val, origin[k])
          /\ cache[k].val.authorizedRoles # <<>> => origin[k].policyRan
          /\ cfg.disablePolicyd => cache[k].val.authorizedRoles = <<>>
    /\ (Engine /\ last.err = Nil) =>
          /\ Range(last.p.authorizedRoles) \subseteq Range(last.p.roles)
          /\ last.p = cache[KeyOf(last)].val
          /\ (~cfg.disablePolicyd /\ ~ServedFromCache(last)) =>
                /\ Did(last, "policy")
                /\ last.p.authorizedRoles = EventsOf(last, "policy")[1].authorized
                /\ last.p.domain = EventsOf(last, "policy")[1].domain
                /\ last.p.roles = EventsOf(last, "policy")[1].roles

(* A Principal with roles r1, r2 of which the policy allows r1 is served   *)
(* from the cache                                                          *)
C11_Witness ==
    /\ ~cfg.disablePolicyd
    /\ ServedFromCache(last)
    /\ last.p.roles = <<"r1", "r2">>
    /\ last.p.authorizedRoles = <<"r1">>

----------------------------------------------------------------------------
(* C12: after any number of authorize calls that insert into the cache, in *)
(* any interleaving and whether or not they repeat a DecisionKey, once     *)
(* every resulting entry has expired and been evicted and no call is in    *)
(* progress, cacheMemoryUsage is back at its initial value 0.              *)
C12_AccountingRoundTrip ==
    (cache = EmptyCache /\ inflight = {}) => cacheMemoryUsage = 0

----------------------------------------------------------------------------
(* Reading Init's log *)

LogIdx(ev, who) ==
    {i \in 1..Len(warm.log) : warm.log[i].ev = ev /\ warm.log[i].who = who}

(* The errors the groups returned, in the order they returned them *)
GroupErrors ==
    {i \in 1..Len(warm.log) : warm.log[i].ev = "done" /\ warm.log[i].err # Nil}

FirstGroupError ==
    IF GroupErrors = {} THEN Nil
    ELSE warm.log[CHOOSE i \in GroupErrors : \A j \in GroupErrors : i <= j].err

UpdateSucceeded(who) ==
    \E i \in LogIdx("return", who) : warm.log[i].err = Nil

(* C13: with the key provider enabled, the policy store's Update is called *)
(* only after the key provider's Update has returned nil, and never once   *)
(* that Update has returned an error; with the key provider disabled and   *)
(* the policy store enabled, the policy store's Update is the first thing  *)
(* group 1 calls.                                                          *)
C13_WarmUpOrder ==
    /\ ~cfg.disablePubkeyd =>
          \A i \in LogIdx("call", "policyd") :
              \E j \in LogIdx("return", "pubkeyd") :
                  j < i /\ warm.log[j].err = Nil
    /\ (\E j \in LogIdx("return", "pubkeyd") : warm.log[j].err # Nil)
          => LogIdx("call", "policyd") = {}
    /\ (cfg.disablePubkeyd /\ ~cfg.disablePolicyd) =>
          /\ LogIdx("call", "pubkeyd") = {}
          /\ \A i \in LogIdx("enter", "g1") :
                /\ i < Len(warm.log)
                /\ warm.log[i + 1] = LogEv("call", "policyd", Nil)

(* The key provider's Update has returned nil and the policy store's       *)
(* Update is running, while the JWK provider's Update is still running     *)
C13_Witness ==
    /\ UpdateSucceeded("pubkeyd")
    /\ warm.g1 = "policyd" /\ warm.g2 = "jwkd"
    /\ LogIdx("call", "policyd") # {}

(* C14: when ctx is already cancelled as Init is called, Init calls no     *)
(* Update, whichever providers are enabled, and returns ctx.Err().         *)
C14_CancelledBeforeInit ==
    (warm.pc # "none" /\ warm.log[1].who = "cancelled") =>
        /\ \A i \in 1..Len(warm.log) : warm.log[i].ev # "call"
        /\ warm.pc = "returned" => warm.result = ctxErr

(* Init has returned on a cancelled context with the three providers       *)
(* enabled                                                                 *)
C14_Witness ==
    /\ warm.pc = "returned" /\ warm.log[1].who = "cancelled"
    /\ EnabledProviders = {"pubkeyd", "policyd", "jwkd"}
    /\ warm.result = ctxErr

----------------------------------------------------------------------------
(* Reading the supervisor *)

ShutdownOrder == <<"stop", "clear", "send", "close">>

(* The refresh errors the enabled providers can have put in the channel,   *)
(* as the specification spells their prefixes                              *)
ForwardedErrors ==
    (IF cfg.disablePubkeyd THEN {}
     ELSE {<<"update pubkey error", "pubkeyd refresh failed">>})
    \cup (IF cfg.disablePolicyd THEN {}
          ELSE {<<"update policy error", "policyd refresh failed">>})
    \cup (IF cfg.disableJwkd THEN {}
          ELSE {<<"update jwk error", "jwkd refresh failed">>})

(* C16: while ctx is not cancelled, whatever the providers' refreshes      *)
(* returned, the supervisor is in its loop (waiting in the select or       *)
(* sending a refresh error), the sweeper runs and the error channel is not *)
(* closed.                                                                 *)
C16_RunsUntilCancelled ==
    (sup.pc # "none" /\ ctx = "live") =>
        /\ sup.pc \in {"select", "fwd"}
        /\ sup.log = <<>>
        /\ sup.sweeper = "running"
        /\ ~ech.closed

(* After a refresh error has been read and with another one queued, the    *)
(* supervisor waits in its select on a live context                        *)
C16_Witness ==
    /\ ctx = "live" /\ sup.pc = "select"
    /\ ech.lastRead = <<"update pubkey error", "pubkeyd refresh failed">>
    /\ ech.buf = <<<<"update policy error", "policyd refresh failed">>>>

(* C17: on cancellation the supervisor stops the sweeper, then clears the  *)
(* cache, then writes ctx.Err(), then closes the channel; ctx.Err() is     *)
(* written once, nothing is written after it, and it is the last value a   *)
(* reader receives before finding the channel closed.                      *)
C17_ShutdownSequence ==
    /\ IsPrefix(sup.log, ShutdownOrder)
    /\ sup.log # <<>> => (ctx = "cancelled" /\ sup.sweeper = "stopped")
    /\ (Len(sup.log) >= 2 /\ Len(sup.log) < 4) => cache = EmptyCache
    /\ \A i \in 1..Len(ech.buf) :
          ech.buf[i] = ctxErr => (i = Len(ech.buf) /\ Len(sup.log) >= 3)
    /\ Len(sup.log) >= 3 =>
          \/ (ech.buf # <<>> /\ ech.buf[Len(ech.buf)] = ctxErr)
          \/ (ech.buf = <<>> /\ ech.lastRead = ctxErr)
    /\ ech.lastRead = ctxErr => ech.buf = <<>>
    /\ ech.closed <=> Len(sup.log) = 4
    /\ ech.sawClosed => (ech.closed /\ ech.lastRead = ctxErr)

(* A reader has drained the channel of a supervisor that cleared a         *)
(* non-empty cache, and has found it closed                                *)
C17_Witness ==
    /\ ech.sawClosed /\ ech.lastRead = ctxErr
    /\ cache = EmptyCache /\ cacheMemoryUsage > 0
    /\ sup.pc = "exited"

(* C18: a refresh error that arrives while the channel holds 200 undrained *)
(* values does not block the supervisor: whenever the supervisor has a     *)
(* refresh error to send, its send can complete at once.                   *)
C18_SendNeverBlocks ==
    sup.pc = "fwd" => Len(ech.buf) < ErrChanCap

(* C19: the channel carries only refresh errors of enabled providers, each *)
(* wrapped with the prefix of its provider, besides ctx.Err(); a non-nil   *)
(* outcome the supervisor received is what it sends next, wrapped with the *)
(* prefix of the provider it came from; a nil outcome leaves the           *)
(* supervisor in its select with nothing to send.                          *)
C19_RefreshErrorsPrefixed ==
    /\ \A i \in 1..Len(ech.buf) :
          ech.buf[i] \in ForwardedErrors \cup {ctxErr}
    /\ ech.lastRead \in ForwardedErrors \cup {ctxErr, Nil}
    /\ sup.pc # "none" => sup.started = EnabledProviders
    /\ sup.pc = "fwd" =>
          /\ sup.got.who \in EnabledProviders
          /\ sup.got.err = <<sup.got.who \o " refresh failed">>
          /\ sup.pending \in ForwardedErrors
          /\ sup.pending[2] = sup.got.err[1]
    /\ sup.pc # "fwd" => (sup.pending = Nil /\ sup.got = NoRefresh)

(* The errors of the policy store and of the JWK provider are queued with  *)
(* their prefixes, the key provider being disabled                         *)
C19_Witness ==
    /\ cfg.disablePubkeyd
    /\ ech.buf = <<<<"update policy error", "policyd refresh failed">>,
                   <<"update jwk error", "jwkd refresh failed">>>>

(* C20: New fails, with "error create authorizers: error no authorizers",  *)
(* exactly when none of the three modalities is enabled; otherwise         *)
(* a.authorizers holds one authorizer per enabled modality and no other.   *)
C20_NoAuthorizers ==
    built.state # "options" =>
        /\ built.state = "failed" <=>
              ~(cfg.enableRoleCert \/ cfg.enableAccessToken \/ cfg.enableRoleToken)
        /\ built.state = "failed" =>
              /\ built.err = <<"error create authorizers", "error no authorizers">>
              /\ built.authorizers = <<>>
        /\ built.state = "ok" =>
              /\ built.err = Nil
              /\ Cardinality(Range(built.authorizers)) = Len(built.authorizers)
              /\ Range(built.authorizers) =
                    (IF cfg.enableRoleCert THEN {"rolecert"} ELSE {})
                    \cup (IF cfg.enableAccessToken THEN {"accesstoken"} ELSE {})
                    \cup (IF cfg.enableRoleToken THEN {"roletoken"} ELSE {})

(* New has failed on options that enable no modality *)
C20_Witness ==
    /\ built.state = "failed"
    /\ built.err = <<"error create authorizers", "error no authorizers">>
    /\ ~cfg.enableRoleCert /\ ~cfg.enableAccessToken /\ ~cfg.enableRoleToken

----------------------------------------------------------------------------
(* Role certificates *)

(* The (domain, role) pairs the Subject CNs and the role URIs of the peer  *)
(* certificates name                                                       *)
PairOf(dr) == IF Len(dr) = 2 THEN {<<dr[1], dr[2]>>} ELSE {}

PairsOfCert(cert) ==
    PairOf(SplitN2(cert.subjectCN, roleInCNDelimiter))
    \cup UNION {PairOf(SplitN2(TrimPrefix(cert.uris[i], roleCertURIPrefix),
                               uriSeparator)) :
                   i \in {j \in 1..Len(cert.uris) :
                             HasPrefix(cert.uris[j], roleCertURIPrefix)}}

ExpectedPairs(peerCerts) ==
    UNION {PairsOfCert(peerCerts[i]) : i \in 1..Len(peerCerts)}

(* No other pair of the certificates has the same domain+roleName. *)
UniqueConcatenation(pair, pairs) ==
    \A q \in pairs : q[1] \o q[2] = pair[1] \o pair[2] => q = pair

IsVerifyRoleCert(l) == l.op = "VerifyRoleCert"

(* C21: with policy evaluation enabled and a role extracted, VerifyRoleCert *)
(* returns nil exactly when one of its CheckPolicy calls succeeds; every    *)
(* call carries an extracted domain with the whole role list extracted for  *)
(* it and the caller's act and res; an error is returned only after every   *)
(* extracted domain was refused, and it is the last refusal wrapped as      *)
(* "role certificates unauthorized".                                        *)
C21_AnyDomainAuthorizes ==
    (IsVerifyRoleCert(last) /\ ~cfg.disablePolicyd /\ Did(last, "extracted")) =>
        LET extracted == EventsOf(last, "extracted")
            checks == EventsOf(last, "checkPolicy")
        IN  /\ last.err = Nil <=> \E i \in 1..Len(checks) : checks[i].ok
            /\ \A i \in 1..Len(checks) :
                  /\ checks[i].pact = last.act
                  /\ checks[i].pres = last.res
                  /\ \E j \in 1..Len(extracted) :
                        /\ extracted[j].domain = checks[i].domain
                        /\ extracted[j].roles = checks[i].roles
            /\ last.err # Nil =>
                  /\ \A j \in 1..Len(extracted) :
                        \E i \in 1..Len(checks) :
                            /\ checks[i].domain = extracted[j].domain
                            /\ ~checks[i].ok
                  /\ last.err = Wrap(checks[Len(checks)].err,
                                     "role certificates unauthorized")
                  /\ last.err[1] = "role certificates unauthorized"

(* Two domains were extracted; the first one visited was refused, the      *)
(* second authorized, and VerifyRoleCert returned nil.                     *)
C21_Witness ==
    /\ IsVerifyRoleCert(last) /\ ~cfg.disablePolicyd
    /\ Len(EventsOf(last, "checkPolicy")) = 2
    /\ ~EventsOf(last, "checkPolicy")[1].ok
    /\ EventsOf(last, "checkPolicy")[2].ok
    /\ EventsOf(last, "checkPolicy")[2].roles = <<"bc", "d">>
    /\ last.err = Nil

(* C22: with policy evaluation disabled VerifyRoleCert returns nil for any  *)
(* peer certificates, act and res, and extracts nothing; with it enabled    *)
(* and no (domain, role) pair in the certificates it returns "invalid role  *)
(* certificate" and calls no CheckPolicy.                                   *)
C22_DisabledOrInvalid ==
    IsVerifyRoleCert(last) =>
        /\ cfg.disablePolicyd =>
              /\ last.err = Nil
              /\ ~Did(last, "extracted")
              /\ ~Did(last, "checkPolicy")
        /\ (~cfg.disablePolicyd /\ ExpectedPairs(last.r.peers) = {}) =>
              /\ last.err = <<"invalid role certificate">>
              /\ ~Did(last, "checkPolicy")

(* Policy evaluation is disabled and the certificates name roles: nil. *)
C22_Witness ==
    /\ IsVerifyRoleCert(last)
    /\ cfg.disablePolicyd
    /\ last.r.peers = <<RoleCertA, RoleCertE>>
    /\ last.act = "" /\ last.res = ""
    /\ last.err = Nil

(* C23: AuthorizeRoleCert returns no principal and the error               *)
(* "AuthorizeRoleCert has not yet been implemented" for every input and     *)
(* configuration; it leaves the cache and its accounting as they were and   *)
(* calls nothing.                                                           *)
C23_NotImplemented ==
    last.op = "AuthorizeRoleCert" =>
        /\ last.p = NoPrincipal
        /\ last.err = <<"AuthorizeRoleCert has not yet been implemented">>
        /\ last.trace = <<>>
        /\ last.cacheAfter = last.cache
        /\ last.usageAfter = last.usage
        /\ cache = last.cache
        /\ cacheMemoryUsage = last.usage

(* AuthorizeRoleCert was called on a filled cache with certificates for     *)
(* which VerifyRoleCert returns nil when policyd authorizes every domain.   *)
C23_Witness ==
    /\ last.op = "AuthorizeRoleCert"
    /\ ~cfg.disablePolicyd
    /\ last.cache # EmptyCache
    /\ last.r.peers = <<RoleCertA>>
    /\ VerifyRoleCert(last.cache, last.usage, last.r.peers, last.act, last.res,
                      <<1>>, [d \in {"a"} |-> Nil]).err = Nil
    /\ last.err = ErrNotImplemented

(* C28: every role list passed to CheckPolicy holds only roles that a       *)
(* Subject CN split once at ":role." or a role URI, trimmed and split at    *)
(* its first "/", names for that domain; it holds no role twice; and it     *)
(* holds every such role whose domain+roleName no other pair shares.        *)
C28_RoleExtraction ==
    (IsVerifyRoleCert(last) /\ ~cfg.disablePolicyd) =>
        LET expected == ExpectedPairs(last.r.peers)
            checks == EventsOf(last, "checkPolicy")
            extracted == EventsOf(last, "extracted")
        IN  /\ \A i \in 1..Len(checks) :
                  /\ \A k \in 1..Len(checks[i].roles) :
                        <<checks[i].domain, checks[i].roles[k]>> \in expected
                  /\ \A k, l \in 1..Len(checks[i].roles) :
                        checks[i].roles[k] = checks[i].roles[l] => k = l
                  /\ \A pair \in expected :
                        (pair[1] = checks[i].domain
                         /\ UniqueConcatenation(pair, expected)) =>
                            pair[2] \in Range(checks[i].roles)
            /\ \A i, j \in 1..Len(extracted) :
                  extracted[i].domain = extracted[j].domain => i = j
            /\ expected = {} <=> extracted = <<>>

(* The CN and a URI of one certificate name the same role, a second URI    *)
(* another; a second certificate has a role URI with two separators.        *)
C28_Witness ==
    /\ IsVerifyRoleCert(last) /\ ~cfg.disablePolicyd
    /\ last.r.peers = <<RoleCertA, RoleCertE>>
    /\ \E i, j \in 1..Len(last.trace) :
          /\ last.trace[i].ev = "checkPolicy"
          /\ last.trace[i].domain = "a"
          /\ last.trace[i].roles = <<"bc", "d">>
          /\ last.trace[j].ev = "checkPolicy"
          /\ last.trace[j].domain = "e"
          /\ last.trace[j].roles = <<"f/g">>

----------------------------------------------------------------------------
(* Concurrent misses *)

(* The call f went through its validator and, where policy evaluation is   *)
(* enabled, through the policy check, and holds the principal of its mode.  *)
RanFullPath(f) ==
    /\ f.by.validated
    /\ ~cfg.disablePolicyd => f.by.policyOk
    /\ cfg.disablePolicyd => ~f.by.policyRan
    /\ f.p.kind = IF f.by.m = roleToken THEN "principal" ELSE "oAuthAccessToken"
    /\ ExpectedKey(f.by) = f.key

(* The step is f's SetWithExpire. *)
Writes(f) ==
    /\ f.pc = "set"
    /\ f \notin inflight'
    /\ [f EXCEPT !.pc = "add"] \in inflight'

(* C24: every call that is between its miss and its return has run its own *)
(* validation and policy check, whether or not another call with the same   *)
(* key is under way, and its SetWithExpire is never held back by another    *)
(* call; each SetWithExpire leaves, under the call's key, the one entry     *)
(* with the writer's principal and a fresh TTL, so after two writers the    *)
(* later one's entry is the one in the cache.                               *)
C24_ConcurrentMisses ==
    /\ [](\A f \in inflight :
              /\ RanFullPath(f)
              /\ f.pc = "set" => ENABLED SetStep)
    /\ [][\A f \in inflight :
              Writes(f) =>
                  /\ cache'[f.key] = [val |-> f.p, expire |-> now + CacheExp]
                  /\ DOMAIN cache' = DOMAIN cache \cup {f.key}
                  /\ \A k \in DOMAIN cache \ {f.key} : cache'[k] = cache[k]]_vars

(* Two calls with the same key, one per mode, both missed; both have       *)
(* written, and the entry is that of the second writer.                     *)
C24_Witness ==
    \E f, g \in inflight :
        /\ f.id < g.id
        /\ f.key = g.key
        /\ f.p # g.p
        /\ f.pc = "add" /\ g.pc = "add"
        /\ origin[f.key] = f.by
        /\ cache[f.key].val = f.p

----------------------------------------------------------------------------
(* The JWK group of Init *)

(* At position i of the log the key provider's Update has been called and  *)
(* has not returned.                                                       *)
PubkeydRunningAt(i) ==
    /\ \E c \in LogIdx("call", "pubkeyd") : c < i
    /\ \A r \in LogIdx("return", "pubkeyd") : i < r

(* C25: the JWK group of Init can be scheduled and can return in whatever   *)
(* state the other group is, and an error that the JWK provider's Update    *)
(* returns while the key provider's Update is running is the error Init     *)
(* returns.                                                                 *)
C25_JwkGroupConcurrent ==
    /\ (warm.pc = "running" /\ warm.g2 = "start") => ENABLED G2Enter
    /\ (warm.pc = "running" /\ warm.g2 = "jwkd") => ENABLED G2JwkdReturns
    /\ \A i \in LogIdx("return", "jwkd") :
          (warm.log[i].err # Nil /\ PubkeydRunningAt(i)) =>
              /\ warm.first = warm.log[i].err
              /\ warm.pc = "returned" => warm.result = warm.log[i].err

(* The JWK provider's Update was called and failed between the call and    *)
(* the return of the key provider's Update, which failed too; Init         *)
(* returned the JWK provider's error.                                      *)
C25_Witness ==
    /\ warm.pc = "returned" /\ ctx = "live"
    /\ warm.result = <<"jwkd update failed">>
    /\ \E c \in LogIdx("call", "pubkeyd"), e \in LogIdx("call", "jwkd"),
          i \in LogIdx("return", "jwkd"), r \in LogIdx("return", "pubkeyd") :
          /\ c < e /\ e < i /\ i < r
          /\ warm.log[r].err = <<"pubkeyd update failed">>

----------------------------------------------------------------------------
(* Liveness of the shutdown *)

(* C26: once the context of a started authority is cancelled, the          *)
(* supervisor eventually sends ctx.Err() and closes the error channel,     *)
(* whatever the providers sent and whether or not the channel is read.     *)
C26_ShutdownCompletes ==
    (ctx = "cancelled" /\ sup.pc # "none")
        ~> (ech.closed /\ sup.log = ShutdownOrder)

----------------------------------------------------------------------------
(* The arguments of CheckPolicyRoles *)

(* The position of the first event of a kind in the trace of a call *)
FirstOf(l, kind) ==
    CHOOSE i \in 1..Len(l.trace) :
        /\ l.trace[i].ev = kind
        /\ \A j \in 1..(i - 1) : l.trace[j].ev # kind

(* C27: a miss whose credential is valid calls CheckPolicyRoles when policy *)
(* evaluation is enabled and the translation, if any, succeeded; the call   *)
(* is made once, with the domain and roles of the validated credential,     *)
(* with the translator's action and resourcePrefix followed by the          *)
(* translator's resource, or, without a translator, with the caller's       *)
(* action and resourcePrefix followed by the caller's resource; the         *)
(* translator is given the caller's action and the resource without prefix. *)
C27_PolicyArguments ==
    (last.op = "authorize" /\ Did(last, "validate")) =>
        LET validated == last.trace[FirstOf(last, "validate")]
            cred == CHOOSE v \in ValidatorOutcomes(last.m, last.tok) : v.ok
            translated == CHOOSE o \in TranslatorOutcomes : o.ok
        IN  /\ Did(last, "policy") <=>
                  /\ validated.ok
                  /\ ~cfg.disablePolicyd
                  /\ cfg.translator =>
                        (Did(last, "translate")
                         /\ last.trace[FirstOf(last, "translate")].ok)
            /\ Did(last, "translate") =>
                  /\ cfg.translator
                  /\ Len(EventsOf(last, "translate")) = 1
                  /\ last.trace[FirstOf(last, "translate")].pact = last.act
                  /\ last.trace[FirstOf(last, "translate")].pres = last.res
                  /\ last.trace[FirstOf(last, "translate")].domain = cred.domain
            /\ Did(last, "policy") =>
                  LET asked == last.trace[FirstOf(last, "policy")]
                  IN  /\ Len(EventsOf(last, "policy")) = 1
                      /\ asked.domain = cred.domain
                      /\ asked.roles = cred.roles
                      /\ asked.pact = IF cfg.translator THEN translated.act
                                      ELSE last.act
                      /\ asked.pres = cfg.resourcePrefix
                                      \o (IF cfg.translator THEN translated.res
                                          ELSE last.res)
                      /\ cfg.translator =>
                            FirstOf(last, "translate") < FirstOf(last, "policy")

(* With a translator configured, the resource "r" of the caller reached     *)
(* CheckPolicyRoles as the prefix followed by the translator's resource.    *)
C27_Witness ==
    /\ last.op = "authorize" /\ last.err = Nil
    /\ cfg.translator /\ cfg.resourcePrefix = "/p"
    /\ last.act = "a" /\ last.res = "r"
    /\ Did(last, "translate") /\ Did(last, "policy")
    /\ last.trace[FirstOf(last, "policy")].pact = "ta"
    /\ last.trace[FirstOf(last, "policy")].pres = "/ptr"
    /\ last.trace[FirstOf(last, "translate")].pres = "r"

----------------------------------------------------------------------------
(* The access-token authorizer *)

(* The certificate the access-token authorizer is to bind the token to *)
BindingCert(r) ==
    IF ~r.tlsNil /\ Len(r.peers) >= 1 THEN r.peers[1] ELSE NilCert

(* C29: whenever the dispatcher invokes the access-token authorizer, a      *)
(* request with a bearer token leads to one call of authorize in            *)
(* access-token mode with that token, the caller's action and resource,     *)
(* the raw query, and the first peer certificate of the TLS state, or no    *)
(* certificate when there is no TLS state or no peer certificate; a request *)
(* without a bearer token makes the authorizer return an error at once,     *)
(* and the dispatcher invokes the role-token authorizer if it is enabled.   *)
C29_AccessTokenAuthorizer ==
    Dispatched =>
        \A i \in 1..Len(last.trace) :
            /\ (last.trace[i].ev = "authorizer"
                /\ last.trace[i].who = "accesstoken") =>
                  IF last.r.hasBearer
                  THEN /\ last.trace[i + 1] =
                             EvCall("authorize", accessToken, last.r.bearer,
                                    last.act, last.res, last.r.rawQuery,
                                    BindingCert(last.r))
                  ELSE /\ last.trace[i + 1].ev = "return"
                       /\ last.trace[i + 1].who = "accesstoken"
                       /\ last.trace[i + 1].err # Nil
                       /\ IF cfg.enableRoleToken
                          THEN /\ last.trace[i + 2].ev = "authorizer"
                               /\ last.trace[i + 2].who = "roletoken"
                          ELSE /\ Len(last.trace) = i + 1
                               /\ last.err = ErrInvalidCredentials
            /\ (last.trace[i].ev = "authorize"
                /\ last.trace[i].m = accessToken) =>
                  /\ i > 1
                  /\ last.trace[i - 1].ev = "authorizer"
                  /\ last.trace[i - 1].who = "accesstoken"

(* A request with a bearer token and two peer certificates was authorized   *)
(* on the first of them.                                                    *)
C29_Witness ==
    /\ Dispatched
    /\ last.r.peers = <<Cert2, Cert1>>
    /\ last.err = Nil
    /\ \E i \in 1..Len(last.trace) :
          /\ last.trace[i].ev = "authorize"
          /\ last.trace[i].m = accessToken
          /\ last.trace[i].cert = Cert2

----------------------------------------------------------------------------
(* Disabled providers *)

Disabled(who) ==
    CASE who = "pubkeyd" -> cfg.disablePubkeyd
      [] who = "policyd" -> cfg.disablePolicyd
      [] who = "jwkd" -> cfg.disableJwkd

Providers == {"pubkeyd", "policyd", "jwkd"}

(* The steps of a call that are calls of the policy store *)
PolicyStoreCalls(l) ==
    {i \in 1..Len(l.trace) :
        l.trace[i].ev \in {"policy", "checkPolicy", "getPolicyCache"}}

(* The map GetPolicyCache returned *)
ReturnedPolicies(l) == l.trace[Len(l.trace)].policies

(* C30: Init calls Update, and Start calls Start and listens, only on the   *)
(* providers that are not disabled; with policy evaluation disabled no call *)
(* of Authorize, VerifyRoleCert or GetPolicyCache reaches the policy store, *)
(* and GetPolicyCache returns an empty map.                                 *)
C30_DisabledNeverInvoked ==
    /\ \A who \in Providers :
          Disabled(who) =>
              /\ LogIdx("call", who) = {}
              /\ LogIdx("return", who) = {}
              /\ who \notin sup.started
              /\ sup.got.who # who
    /\ cfg.disablePolicyd =>
          /\ PolicyStoreCalls(last) = {}
          /\ last.op = "GetPolicyCache" =>
                (last.err = Nil /\ ReturnedPolicies(last) = EmptyPolicyCache)
    /\ (~cfg.disablePolicyd /\ last.op = "GetPolicyCache") =>
          /\ Cardinality(PolicyStoreCalls(last)) = 1
          /\ \A i \in PolicyStoreCalls(last) :
                ReturnedPolicies(last) = last.trace[i].policies

(* With the policy store disabled and the two others started,              *)
(* GetPolicyCache returned an empty map.                                    *)
C30_Witness ==
    /\ cfg.disablePolicyd
    /\ sup.started = {"pubkeyd", "jwkd"}
    /\ last.op = "GetPolicyCache"
    /\ last.trace = <<[EvBase EXCEPT !.ev = "result"]>>

----------------------------------------------------------------------------
(* Staleness of cached decisions *)

(* The entries that a step wrote or replaced *)
Touched == {k \in DOMAIN cache' : k \notin DOMAIN cache \/ cache'[k] # cache[k]}

(* C31: an entry enters or changes in the cache only in a call that         *)
(* validated a credential at that moment, and it expires cacheExp later; a  *)
(* call served from the cache finds its entry not yet expired and leaves    *)
(* the expiry times as they are.  Hence a Principal returned from the cache *)
(* is at most cacheExp old, whether or not the sweep has run.               *)
C31_BoundedStaleness ==
    /\ [](ServedFromCache(last) =>
              /\ last.now <= last.cache[KeyOf(last)].expire
              /\ last.p = last.cache[KeyOf(last)].val
              /\ last.cacheAfter = last.cache)
    /\ [][\A k \in Touched :
              /\ cache'[k].expire = now + CacheExp
              /\ Written(last'.trace, k) # {}
              /\ \E i \in 1..Len(last'.trace) :
                    last'.trace[i].ev = "validate" /\ last'.trace[i].ok
              /\ last'.now = now]_vars

(* A decision inserted at time 1 is served at time 2, the last moment of    *)
(* its life, from a cache that no sweep has visited since.                  *)
C31_Witness ==
    /\ ServedFromCache(last)
    /\ last.now = 2
    /\ last.cache[KeyOf(last)].expire = 2
    /\ origin[KeyOf(last)].validated
    /\ now = last.now

----------------------------------------------------------------------------
(* The role-certificate authorizer *)

OnlyRoleCert == cfg.enableRoleCert /\ ~cfg.enableAccessToken /\ ~cfg.enableRoleToken

(* C32: whenever the dispatcher invokes the role-certificate authorizer it  *)
(* returns no principal and an error; with no other modality enabled,       *)
(* Verify and Authorize return ErrInvalidCredentials and no principal for   *)
(* every request and leave the cache as it was.                             *)
C32_RoleCertNeverGrants ==
    Dispatched =>
        /\ \A i \in 1..Len(last.trace) :
              (last.trace[i].ev = "authorizer"
               /\ last.trace[i].who = "rolecert") =>
                  /\ last.trace[i + 1].ev = "return"
                  /\ last.trace[i + 1].who = "rolecert"
                  /\ last.trace[i + 1].err # Nil
                  /\ last.trace[i + 1].p = NoPrincipal
        /\ OnlyRoleCert =>
              /\ last.err = ErrInvalidCredentials
              /\ last.p = NoPrincipal
              /\ InvokedOrder(last) = <<"rolecert">>
              /\ last.cacheAfter = last.cache
              /\ last.usageAfter = last.usage

(* Only the role-certificate modality is enabled; the request carries a     *)
(* peer certificate for which VerifyRoleCert returns nil when policyd       *)
(* authorizes its domain; Verify refused it.                                *)
C32_Witness ==
    /\ last.op = "Verify"
    /\ OnlyRoleCert /\ ~cfg.disablePolicyd
    /\ ~last.r.tlsNil /\ last.r.peers = <<RoleCertA>>
    /\ VerifyRoleCert(last.cache, last.usage, last.r.peers, last.act, last.res,
                      <<1>>, [d \in {"a"} |-> Nil]).err = Nil
    /\ last.err = ErrInvalidCredentials

----------------------------------------------------------------------------
(* Modes and certificates of cached decisions *)

(* C33: a call served from the cache is in the mode of the call that        *)
(* inserted the entry it is served from.                                    *)
C33_ModalityIsolation ==
    ServedFromCache(last) => origin[KeyOf(last)].m = last.m

(* The call returned a Principal or a nil error without asking a validator  *)
FromCache(l) == l.err = Nil /\ Did(l, "get") /\ ~Did(l, "validate")

(* C34: an access-token call that presents a certificate and is served from *)
(* an entry inserted with a certificate presents the certificate the entry  *)
(* was inserted with.                                                       *)
C34_CertificateBinding ==
    (/\ last.op \in {"VerifyAccessToken", "AuthorizeAccessToken"}
     /\ FromCache(last)
     /\ last.cert.present
     /\ origin[KeyOf(last)].cert.present) =>
        origin[KeyOf(last)].cert = last.cert

----------------------------------------------------------------------------
(* Expiry of the credential *)

(* C35: a Principal that authorize returns has not expired at the time of   *)
(* the call.                                                                *)
C35_NoExpiredPrincipal ==
    (last.op = "authorize" /\ last.err = Nil) =>
        last.p.expiryTime >= last.now

----------------------------------------------------------------------------
(* The accounting counter *)

(* C36: cacheMemoryUsage is never negative. *)
C36_UsageNeverNegative == cacheMemoryUsage >= 0

(* C37: while no call is between its lookup and its Add, cacheMemoryUsage   *)
(* is the sum of the byte costs of the entries in the cache.                *)
C37_UsageMatchesCache ==
    inflight = {} => cacheMemoryUsage = SumUsage(cache, DOMAIN cache)

----------------------------------------------------------------------------
(* Completeness of the role extraction *)

(* C38: every (domain, role) pair that the certificates name is in the role *)
(* list that VerifyRoleCert holds for its domain.                           *)
C38_NoRoleDropped ==
    (IsVerifyRoleCert(last) /\ ~cfg.disablePolicyd) =>
        \A pair \in ExpectedPairs(last.r.peers) :
            \E i \in 1..Len(last.trace) :
                /\ last.trace[i].ev = "extracted"
                /\ last.trace[i].domain = pair[1]
                /\ pair[2] \in Range(last.trace[i].roles)

----------------------------------------------------------------------------
(* The Verify and the Authorize forms *)

(* v is what a Verify form did and a what the Authorize form did: the same  *)
(* error, the same cache and counter afterwards; the Verify form hands out  *)
(* no Principal, the Authorize form one exactly when the error is nil.      *)
SameOutcome(v, a) ==
    /\ v.err = a.err
    /\ v.cache = a.cache
    /\ v.usage = a.usage
    /\ v.p = NoPrincipal
    /\ a.err = Nil <=> a.p # NoPrincipal

(* The token forms agree from the state (c, u, t) on the arguments of the   *)
(* call l, whatever the collaborators answer.                               *)
TokenFormsAgree(c, u, t, l) ==
    /\ \A env \in Envs(roleToken, l.tok, cfg.disablePolicyd, cfg.translator) :
          SameOutcome(VerifyRoleToken(c, u, t, l.tok, l.act, l.res, env),
                      AuthorizeRoleToken(c, u, t, l.tok, l.act, l.res, env))
    /\ \A env \in Envs(accessToken, l.tok, cfg.disablePolicyd, cfg.translator) :
          SameOutcome(VerifyAccessToken(c, u, t, l.tok, l.act, l.res, l.cert,
                                        env),
                      AuthorizeAccessToken(c, u, t, l.tok, l.act, l.res,
                                           l.cert, env))

DispatchFormsAgree(c, u, t, l) ==
    \A envs \in DispatchEnvs(l.r) :
        SameOutcome(Verify(initAuthorizers, 1, c, u, t, l.r, l.act, l.res, envs),
                    Authorize(initAuthorizers, 1, c, u, t, l.r, l.act, l.res,
                              envs))

(* What the call l did is something that the form f does from the state    *)
(* the call started in.                                                     *)
DoneBy(l, f) ==
    /\ f.err = l.err
    /\ f.cache = l.cacheAfter
    /\ f.usage = l.usageAfter

(* C39: from the state in which a call started and from the state it left,  *)
(* and on its arguments, VerifyRoleToken and AuthorizeRoleToken,            *)
(* VerifyAccessToken and AuthorizeAccessToken, Verify and Authorize return  *)
(* the same error and leave the same cache and the same cacheMemoryUsage;   *)
(* what a call of one form did, its other form does on the same answers.    *)
C39_FormsEquivalent ==
    /\ last.op \in {"VerifyRoleToken", "AuthorizeRoleToken",
                    "VerifyAccessToken", "AuthorizeAccessToken"} =>
          /\ TokenFormsAgree(last.cache, last.usage, last.now, last)
          /\ TokenFormsAgree(cache, cacheMemoryUsage, now, last)
    /\ last.op \in {"Verify", "Authorize"} =>
          /\ DispatchFormsAgree(last.cache, last.usage, last.now, last)
          /\ DispatchFormsAgree(cache, cacheMemoryUsage, now, last)
    /\ last.op = "VerifyRoleToken" =>
          /\ last.p = NoPrincipal
          /\ \E env \in Envs(roleToken, last.tok, cfg.disablePolicyd,
                             cfg.translator) :
                DoneBy(last, AuthorizeRoleToken(last.cache, last.usage,
                                                last.now, last.tok, last.act,
                                                last.res, env))
    /\ last.op = "AuthorizeRoleToken" =>
          \E env \in Envs(roleToken, last.tok, cfg.disablePolicyd,
                          cfg.translator) :
              DoneBy(last, VerifyRoleToken(last.cache, last.usage, last.now,
                                           last.tok, last.act, last.res, env))
    /\ last.op = "VerifyAccessToken" =>
          /\ last.p = NoPrincipal
          /\ \E env \in Envs(accessToken, last.tok, cfg.disablePolicyd,
                             cfg.translator) :
                DoneBy(last, AuthorizeAccessToken(last.cache, last.usage,
                                                  last.now, last.tok, last.act,
                                                  last.res, last.cert, env))
    /\ last.op = "AuthorizeAccessToken" =>
          \E env \in Envs(accessToken, last.tok, cfg.disablePolicyd,
                          cfg.translator) :
              DoneBy(last, VerifyAccessToken(last.cache, last.usage, last.now,
                                             last.tok, last.act, last.res,
                                             last.cert, env))
    /\ last.op = "Verify" =>
          /\ last.p = NoPrincipal
          /\ \E envs \in DispatchEnvs(last.r) :
                DoneBy(last, Authorize(initAuthorizers, 1, last.cache,
                                       last.usage, last.now, last.r, last.act,
                                       last.res, envs))
    /\ last.op = "Authorize" =>
          \E envs \in DispatchEnvs(last.r) :
              DoneBy(last, Verify(initAuthorizers, 1, last.cache, last.usage,
                                  last.now, last.r, last.act, last.res, envs))

(* VerifyAccessToken was served a Principal from the cache: it returned nil *)
(* and no Principal, and left the cache as it was.                          *)
C39_Witness ==
    /\ last.op = "VerifyAccessToken"
    /\ FromCache(last)
    /\ last.p = NoPrincipal
    /\ last.cache[KeyOf(last)].val.kind = "principal"
    /\ last.cacheAfter = last.cache

====
